---- MODULE Spec2Model ----
(***************************************************************************)
(* Verification model of the poly-weather trading engine.                  *)
(*                                                                         *)
(* Components, each with its own specification over its own variables:     *)
(*   SpecClassify  TradingBot.determine_market_state as a function of the  *)
(*                 market's days-until-target and the configuration.       *)
(*   Spec          The engine: scan loop, per-market thread registry,      *)
(*                 market-making threads, monitor threads, shutdown        *)
(*                 (called from the main thread and from main.py's Timer). *)
(*   FairSpec      Spec with the fairness thread scheduling gives.         *)
(*                                                                         *)
(* The venue gateway, the forecast source and the clock are environment:   *)
(* their results are chosen nondeterministically from small sets.          *)
(***************************************************************************)
EXTENDS Integers, Sequences, FiniteSets, TLC

(***************************************************************************)
(* BotState (src/bot.py:28-37)                                             *)
(***************************************************************************)
INITIALIZING == "INITIALIZING"
SCANNING == "SCANNING"
POSITIONING == "POSITIONING"
MARKET_MAKING == "MARKET_MAKING"
DAY_OF_MONITORING == "DAY_OF_MONITORING"
WAITING_RESOLUTION == "WAITING_RESOLUTION"
STOPPED == "STOPPED"
ERROR == "ERROR"

BotState ==
    {INITIALIZING, SCANNING, POSITIONING, MARKET_MAKING, DAY_OF_MONITORING,
     WAITING_RESOLUTION, STOPPED, ERROR}

(***************************************************************************)
(* Bounds of the model.                                                    *)
(***************************************************************************)
\* days-until-target and advance_days range over -MaxDays..MaxDays and
\* 1..MaxDays in SpecClassify
MaxDays == 4

\* settings.advance_days used by the engine specification (its default)
AdvanceDays == 1

\* the day after which a market is not followed further
MinDay == -1

Markets == {"m1", "m2"}

\* connections the streaming client establishes in one run
MaxConn == 2

\* self.max_reconnect_attempts (src/clients/polymarket_ws.py:70)
max_reconnect_attempts == 5

\* the cap in min(2 ** self.reconnect_attempts, 60) (src/clients/polymarket_ws.py:384)
MaxBackoff == 60

\* auto_reconnect: bool = True (src/clients/polymarket_ws.py:39); the thread
\* wrapper passes no value (src/utils/websocket_thread.py:70-74)
auto_reconnect == TRUE

Assets == {"a1"}

VARIABLES
    \* ---- SpecClassify
    cl_days,       \* market.days_until_target()
    cl_adv,        \* settings.advance_days
    cl_mm,         \* settings.enable_market_making
    cl_out         \* the state returned, "none" before the call

clVars == <<cl_days, cl_adv, cl_mm, cl_out>>

VARIABLES
    \* ---- Spec: configuration (fixed after construction)
    enable_market_making,   \* settings.enable_market_making: market_maker is not None
    enable_position_taking, \* settings.enable_position_taking: position_taker is not None
    has_ws,                 \* ws_thread is not None (use_websocket and not dry_run)
    \* ---- Spec: environment
    days,                   \* market id -> market.days_until_target() today
    \* ---- Spec: TradingBot fields
    running,                \* self.running
    shutdown_event,         \* self.shutdown_event.is_set()
    state,                  \* self.state
    monitors,               \* self.monitors, in insertion order: <<[m, kind]>>
    threads,                \* self.threads: <<[m, kind]>>
    \* ---- Spec: objects the engine owns
    monitoring,             \* market id -> RealtimeMonitor.monitoring of its monitor
    stopped,                \* market_maker.stopped
    cancel_calls,           \* callers whose shutdown invoked market_maker.cancel_all_orders
    ws_running,             \* ws_thread.running
    \* ---- Spec: control
    pc_main,                \* position of the main thread in run / run_main_loop
    todo,                   \* markets of the current cycle not yet processed
    main_after,             \* where the main thread goes when its shutdown call returns
    signalled,              \* a SIGINT/SIGTERM was delivered
    handle_result,          \* what the cycle's latest handle_* call did: "started", "noop", "none"
    sd,                     \* caller -> position inside shutdown
    sd_it,                  \* caller -> dict iterator over self.monitors.values()
    mmpc,                   \* market id -> position of its market-making thread
    monpc                   \* market id -> position of its monitor thread

cfgVars == <<enable_market_making, enable_position_taking, has_ws>>

botVars == <<running, shutdown_event, state, monitors, threads>>

ownedVars == <<monitoring, stopped, cancel_calls, ws_running>>

ctlVars == <<pc_main, todo, main_after, signalled, handle_result, sd, sd_it, mmpc, monpc>>

engVars == <<cfgVars, days, botVars, ownedVars, ctlVars>>

VARIABLES
    \* ---- SpecWs: PolymarketWebSocketClient and its event loop
    client,         \* the client's fields; websocket, listen_task, ping_task: 0 is None;
                    \* tried: reconnection attempts begun since the client last was
                    \* connected and resubscribed; resub_conn: the connection of
                    \* the last re-subscription that was sent
    conns,          \* connection -> "none", "open", "closed_ok", "closed_err"
    listen,         \* listen task -> position, connection, pending cancel, reconnect locals,
                    \* and lost: the subscribed set when the task saw its connection fail
    ping,           \* ping task -> position, pending cancel
    apc,            \* position of WebSocketThread._async_run, through disconnect
    d_wait,         \* the task disconnect awaits
    thread_running  \* WebSocketThread.running

wsVars == <<client, conns, listen, ping, apc, d_wait, thread_running>>

VARIABLES
    \* ---- SpecTick: TradingBot._on_price_change and the caches it reads
    markets,        \* self.markets: the ids of the cached markets, in insertion order
    forecasts,      \* self.forecasts: market id -> cached forecast
    price,          \* token -> price of the cached outcome, 0 before the market is cached
    tick_orders,    \* tokens of the orders submitted by the handler
    cache_pc,       \* main thread: "idle", or the market between lines 618 and 619
    hpc,            \* handler: "idle", "find", "update"
    h_tok,          \* asset_id of the message being handled
    h_ask,          \* best_ask of the message being handled
    h_it,           \* the dict iterator of the handler: position, size at its start
    h_stale,        \* the market object the handler holds was replaced in the cache
    tick_result,    \* how the last call of the handler ended
    escaped,        \* an exception has left the handler
    tick_on         \* price-change messages are delivered

tickVars == <<markets, forecasts, price, tick_orders, cache_pc, hpc, h_tok, h_ask,
              h_it, h_stale, tick_result, escaped, tick_on>>

VARIABLES
    \* ---- SpecSub: PolymarketWebSocketClient.subscribe as a sequence of calls
    sub             \* assets: subscribed_assets; link: "none" (no websocket or not
                    \* connected), "open", "broken" (send raises), "off" (no calls);
                    \* of the last call: ids, before (the set before it), outcome;
                    \* passed: the ids of all calls that succeeded

VARIABLES
    \* ---- SpecMsg: the read loop of the streaming client dispatching frames
    msg,            \* of the last frame: frame, cb (what the user callbacks do),
                    \* calls (callbacks invoked, in order); registered: the
                    \* callbacks the client was built with; connected, running,
                    \* subscribed_assets; loop: "iterating", "ended", "off"
    \* ---- SpecMml: run_market_making_loop of one market
    mml,            \* gateway: "sync" (PolymarketSimulator) or "async"
                    \* (PolymarketClient); cash: the balance at the gateway;
                    \* session_start_balance; positions, inventory,
                    \* active_orders, stopped, daily_pnl: the strategy's fields;
                    \* venue: ids of the orders placed and not cancelled;
                    \* prev, cur: ids placed in the previous and in this
                    \* iteration; breaker: how the last check ended; pc, iter
    \* ---- SpecRtm: RealtimeMonitor polling the station
    rtm             \* monitoring, previous_max, readings (their current_max):
                    \* the monitor's fields; on_change: whether a callback was
                    \* passed; of the last poll: polled, detected, calls (the
                    \* arguments of every callback invocation); pc

VARIABLES
    \* ---- the specifications of a single call of a method
    call            \* fn: the method ("off": none); the arguments of the call,
                    \* the objects it reads, and, once pc is "returned", what
                    \* it returned and what it did to the gateway

\* the variables of the components that are one record each
recVars == <<sub, msg, mml, rtm, call>>

\* what no step of the handler or of the caching changes
nonTickVars == <<clVars, engVars, wsVars, recVars>>

\* what no call of subscribe changes
nonSubVars == <<clVars, engVars, wsVars, tickVars, msg, mml, rtm, call>>

\* what no frame changes
nonMsgVars == <<clVars, engVars, wsVars, tickVars, sub, mml, rtm, call>>

\* what no step of the market-making loop changes
nonMmlVars == <<clVars, engVars, wsVars, tickVars, sub, msg, rtm, call>>

\* what no step of the monitor changes
nonRtmVars == <<clVars, engVars, wsVars, tickVars, sub, msg, mml, call>>

\* what no call of a single method changes
nonCallVars == <<clVars, engVars, wsVars, tickVars, sub, msg, mml, rtm>>

\* what no step of the streaming client changes
nonWsVars == <<clVars, engVars, tickVars, recVars>>

\* what no step of the engine changes: its configuration and the variables
\* of the other components
fixedVars == <<cfgVars, clVars, wsVars, tickVars, recVars>>

vars == <<clVars, engVars, wsVars, tickVars, recVars>>

(***************************************************************************)
(* TradingBot.determine_market_state (src/bot.py:409-439).                 *)
(* market.is_target_day() is days_until_target() == 0                      *)
(* (src/models/market.py:222-224); both reads of the clock are taken on    *)
(* the same calendar day.                                                  *)
(***************************************************************************)
determine_market_state_offbyone(days_until, advance_days, market_making) ==
    IF days_until = 0 THEN DAY_OF_MONITORING
    ELSE IF 1 <= days_until /\ days_until < advance_days
         THEN (IF market_making THEN MARKET_MAKING ELSE POSITIONING)
    ELSE IF days_until < 0 THEN WAITING_RESOLUTION
    ELSE SCANNING

determine_market_state(days_until, advance_days, market_making) ==
    IF days_until = 0 THEN DAY_OF_MONITORING
    ELSE IF 1 <= days_until /\ days_until <= advance_days
         THEN (IF market_making THEN MARKET_MAKING ELSE POSITIONING)
    ELSE IF days_until < 0 THEN WAITING_RESOLUTION
    ELSE SCANNING

ClassifyInit ==
    /\ cl_days \in (0 - MaxDays)..MaxDays
    /\ cl_adv \in 1..MaxDays
    /\ cl_mm \in BOOLEAN
    /\ cl_out = "none"

Classify ==
    /\ cl_out = "none"
    /\ cl_out' = determine_market_state(cl_days, cl_adv, cl_mm)
    /\ UNCHANGED <<cl_days, cl_adv, cl_mm>>
    /\ UNCHANGED <<engVars, wsVars, tickVars, recVars>>

\* C1: classify returns DayOfMonitoring at 0 days, MarketMaking/Positioning
\* (by the market-making switch) for 1..advance_days, WaitingResolution for
\* negative days, Scanning beyond advance_days, and never Initializing,
\* Stopped or Error.
C1_Classification ==
    cl_out # "none" =>
        /\ (cl_days = 0) => cl_out = DAY_OF_MONITORING
        /\ (1 <= cl_days /\ cl_days <= cl_adv /\ cl_mm) => cl_out = MARKET_MAKING
        /\ (1 <= cl_days /\ cl_days <= cl_adv /\ ~cl_mm) => cl_out = POSITIONING
        /\ (cl_days < 0) => cl_out = WAITING_RESOLUTION
        /\ (cl_days > cl_adv) => cl_out = SCANNING
        /\ cl_out \notin {INITIALIZING, STOPPED, ERROR}

C1_Witness ==
    cl_out = MARKET_MAKING /\ cl_days = cl_adv /\ cl_days > 1

(***************************************************************************)
(* The engine (src/bot.py).                                                *)
(***************************************************************************)
Callers == {"main", "timer"}

\* lists the gateway's get_temperature_markets may give one scan cycle
ScanResults == {<<>>, <<"m1">>, <<"m2">>, <<"m1", "m2">>, <<"m2", "m1">>}

\* days until target on the day the engine starts: m1 is not yet in its
\* trading window, m2 enters it
FirstDays == [m \in Markets |-> IF m = "m1" THEN AdvanceDays + 1 ELSE AdvanceDays]

InMonitors(m) == \E i \in 1..Len(monitors) : monitors[i].m = m

LoopPcs == {"while", "scan", "proc", "sleep", "errsleep"}

EngInit ==
    /\ enable_market_making \in BOOLEAN
    /\ enable_position_taking \in BOOLEAN
    /\ has_ws \in BOOLEAN
    /\ days = FirstDays
    /\ running = FALSE
    /\ shutdown_event = FALSE
    /\ state = INITIALIZING
    /\ monitors = <<>>
    /\ threads = <<>>
    /\ monitoring = [m \in Markets |-> FALSE]
    /\ stopped = FALSE
    /\ cancel_calls = {}
    /\ ws_running = FALSE
    /\ pc_main = "run"
    /\ todo = <<>>
    /\ main_after = "none"
    /\ signalled = FALSE
    /\ handle_result = "none"
    /\ sd = [c \in Callers |-> "idle"]
    /\ sd_it = [c \in Callers |-> [pos |-> 0, size |-> 0]]
    /\ mmpc = [m \in Markets |-> "none"]
    /\ monpc = [m \in Markets |-> "none"]

\* the engine at rest, for the specifications of the other components
EngIdle ==
    /\ enable_market_making = FALSE
    /\ enable_position_taking = FALSE
    /\ has_ws = FALSE
    /\ days = [m \in Markets |-> 0]
    /\ running = FALSE
    /\ shutdown_event = FALSE
    /\ state = INITIALIZING
    /\ monitors = <<>>
    /\ threads = <<>>
    /\ monitoring = [m \in Markets |-> FALSE]
    /\ stopped = FALSE
    /\ cancel_calls = {}
    /\ ws_running = FALSE
    /\ pc_main = "run"
    /\ todo = <<>>
    /\ main_after = "none"
    /\ signalled = FALSE
    /\ handle_result = "none"
    /\ sd = [c \in Callers |-> "idle"]
    /\ sd_it = [c \in Callers |-> [pos |-> 0, size |-> 0]]
    /\ mmpc = [m \in Markets |-> "none"]
    /\ monpc = [m \in Markets |-> "none"]

(***************************************************************************)
(* TradingBot.run up to the main loop (src/bot.py:726-747):                *)
(* ws_thread.start() sets ws_thread.running and starts its thread          *)
(* (src/utils/websocket_thread.py:44-54).                                  *)
(***************************************************************************)
RunStart ==
    /\ pc_main = "run"
    /\ pc_main' = "enter"
    /\ ws_running' = (IF has_ws THEN TRUE ELSE ws_running)
    /\ UNCHANGED <<fixedVars, days, botVars, monitoring, stopped, cancel_calls>>
    /\ UNCHANGED <<todo, main_after, signalled, handle_result, sd, sd_it, mmpc, monpc>>

\* run_main_loop before its try block (src/bot.py:570-574)
LoopEnter ==
    /\ pc_main = "enter"
    /\ pc_main' = "while"
    /\ running' = TRUE
    /\ state' = SCANNING
    /\ UNCHANGED <<fixedVars, days, shutdown_event, monitors, threads>>
    /\ UNCHANGED <<ownedVars, todo, main_after, signalled, handle_result, sd, sd_it, mmpc, monpc>>

\* while self.running and not self.shutdown_event.is_set() (src/bot.py:577)
LoopCheck ==
    /\ pc_main = "while"
    /\ pc_main' = (IF running /\ ~shutdown_event THEN "scan" ELSE "finally")
    /\ UNCHANGED <<fixedVars, days, botVars, ownedVars>>
    /\ UNCHANGED <<todo, main_after, signalled, handle_result, sd, sd_it, mmpc, monpc>>

\* markets = self.scan_markets(); no markets: sleep and continue
\* (src/bot.py:585-590)
Scan ==
    /\ pc_main = "scan"
    /\ \E ms \in ScanResults :
        /\ todo' = ms
        /\ pc_main' = (IF ms = <<>> THEN "sleep" ELSE "proc")
    /\ UNCHANGED <<fixedVars, days, botVars, ownedVars>>
    /\ UNCHANGED <<main_after, signalled, handle_result, sd, sd_it, mmpc, monpc>>

(***************************************************************************)
(* TradingBot.handle_market_making (src/bot.py:488-516): the thread is     *)
(* registered in self.monitors under the market id.                        *)
(***************************************************************************)
handle_market_making_nocheck(m) ==
    /\ threads' = Append(threads, [m |-> m, kind |-> "mm"])
    /\ monitors' = Append(monitors, [m |-> m, kind |-> "thread"])
    /\ mmpc' = [mmpc EXCEPT ![m] = "check"]
    /\ handle_result' = "started"
    /\ UNCHANGED <<monpc, monitoring>>

handle_market_making(m) ==
    IF enable_market_making /\ ~InMonitors(m)
    THEN /\ threads' = Append(threads, [m |-> m, kind |-> "mm"])
         /\ monitors' = Append(monitors, [m |-> m, kind |-> "thread"])
         /\ mmpc' = [mmpc EXCEPT ![m] = "check"]
         /\ handle_result' = "started"
         /\ UNCHANGED <<monpc, monitoring>>
    ELSE /\ handle_result' = "noop"
         /\ UNCHANGED <<threads, monitors, mmpc, monpc, monitoring>>

(***************************************************************************)
(* TradingBot.handle_day_of_monitoring (src/bot.py:518-566): a monitor is  *)
(* created and registered when the market id has no entry in               *)
(* self.monitors; its thread is started when a strategy exists             *)
(* (RealtimeMonitor.__init__ leaves monitoring False,                      *)
(* src/utils/realtime_monitor.py:50).                                      *)
(***************************************************************************)
handle_day_of_monitoring_nocheck(m) ==
    /\ monitors' = Append(monitors, [m |-> m, kind |-> "monitor"])
    /\ monitoring' = [monitoring EXCEPT ![m] = FALSE]
    /\ threads' = Append(threads, [m |-> m, kind |-> "mon"])
    /\ monpc' = [monpc EXCEPT ![m] = "start"]
    /\ handle_result' = "started"
    /\ UNCHANGED mmpc

handle_day_of_monitoring(m) ==
    IF ~InMonitors(m)
    THEN /\ monitors' = Append(monitors, [m |-> m, kind |-> "monitor"])
         /\ monitoring' = [monitoring EXCEPT ![m] = FALSE]
         /\ IF enable_position_taking \/ enable_market_making
            THEN /\ threads' = Append(threads, [m |-> m, kind |-> "mon"])
                 /\ monpc' = [monpc EXCEPT ![m] = "start"]
            ELSE UNCHANGED <<threads, monpc>>
         /\ handle_result' = "started"
         /\ UNCHANGED mmpc
    ELSE /\ handle_result' = "noop"
         /\ UNCHANGED <<threads, monitors, mmpc, monpc, monitoring>>

\* one market of the cycle: forecast found, state determined and handled
\* (src/bot.py:597-652); handle_positioning starts no thread
\* (src/bot.py:441-486).  self.market_states[id] is written here and read
\* nowhere in the engine; the model does not carry it.
ProcessMarket ==
    /\ pc_main = "proc"
    /\ todo # <<>>
    /\ LET m == Head(todo)
           st == determine_market_state(days[m], AdvanceDays, enable_market_making)
       IN IF st = MARKET_MAKING THEN handle_market_making(m)
          ELSE IF st = DAY_OF_MONITORING THEN handle_day_of_monitoring(m)
          ELSE /\ handle_result' = "none"
               /\ UNCHANGED <<threads, monitors, mmpc, monpc, monitoring>>
    /\ todo' = Tail(todo)
    /\ UNCHANGED <<fixedVars, days, running, shutdown_event, state>>
    /\ UNCHANGED <<stopped, cancel_calls, ws_running>>
    /\ UNCHANGED <<pc_main, main_after, signalled, sd, sd_it>>

\* get_forecast_for_market gave None: the market is skipped (src/bot.py:606-610)
SkipMarket ==
    /\ pc_main = "proc"
    /\ todo # <<>>
    /\ todo' = Tail(todo)
    /\ UNCHANGED <<fixedVars, days, botVars, ownedVars>>
    /\ UNCHANGED <<pc_main, main_after, signalled, handle_result, sd, sd_it, mmpc, monpc>>

\* all markets processed: time.sleep(sleep_time) (src/bot.py:654-670)
CycleDone ==
    /\ pc_main = "proc"
    /\ todo = <<>>
    /\ pc_main' = "sleep"
    /\ handle_result' = "none"
    /\ UNCHANGED <<fixedVars, days, botVars, ownedVars>>
    /\ UNCHANGED <<todo, main_after, signalled, sd, sd_it, mmpc, monpc>>

Sleep ==
    /\ pc_main = "sleep"
    /\ pc_main' = "while"
    /\ todo' = <<>>
    /\ UNCHANGED <<fixedVars, days, botVars, ownedVars>>
    /\ UNCHANGED <<main_after, signalled, handle_result, sd, sd_it, mmpc, monpc>>

\* except Exception inside the iteration: log, sleep 30 (src/bot.py:672-674)
IterError ==
    /\ pc_main \in {"scan", "proc", "sleep"}
    /\ pc_main' = "errsleep"
    /\ todo' = <<>>
    /\ handle_result' = "none"
    /\ UNCHANGED <<fixedVars, days, botVars, ownedVars>>
    /\ UNCHANGED <<main_after, signalled, sd, sd_it, mmpc, monpc>>

ErrSleep ==
    /\ pc_main = "errsleep"
    /\ pc_main' = "while"
    /\ UNCHANGED <<fixedVars, days, botVars, ownedVars>>
    /\ UNCHANGED <<todo, main_after, signalled, handle_result, sd, sd_it, mmpc, monpc>>

\* the exception leaving run_main_loop and run with no finally clause
Escape_nofinally ==
    /\ pc_main \in LoopPcs
    /\ pc_main' = "returned"
    /\ todo' = <<>>
    /\ handle_result' = "none"
    /\ UNCHANGED <<fixedVars, days, botVars, ownedVars>>
    /\ UNCHANGED <<main_after, signalled, sd, sd_it, mmpc, monpc>>

\* an exception that is no Exception (KeyboardInterrupt, SystemExit) or one
\* raised inside the except block leaves the loop (src/bot.py:676-680)
Escape ==
    /\ pc_main \in LoopPcs
    /\ pc_main' = "finally"
    /\ todo' = <<>>
    /\ handle_result' = "none"
    /\ UNCHANGED <<fixedVars, days, botVars, ownedVars>>
    /\ UNCHANGED <<main_after, signalled, sd, sd_it, mmpc, monpc>>

(***************************************************************************)
(* TradingBot.shutdown (src/bot.py:682-714), one step per statement that   *)
(* other threads can observe.                                              *)
(***************************************************************************)
\* shutdown's first statement: self.running = False (src/bot.py:685)
ShutdownBegin(c) ==
    /\ running' = FALSE
    /\ sd' = [sd EXCEPT ![c] = "event"]

\* finally: self.shutdown() (src/bot.py:679-680)
Finally ==
    /\ pc_main = "finally"
    /\ sd["main"] = "idle"
    /\ ShutdownBegin("main")
    /\ pc_main' = "shutdown"
    /\ main_after' = "run_finally"
    /\ UNCHANGED <<fixedVars, days, shutdown_event, state, monitors, threads, ownedVars>>
    /\ UNCHANGED <<todo, signalled, handle_result, sd_it, mmpc, monpc>>

\* signal_handler: self.shutdown(); sys.exit(0) (src/bot.py:716-724); the
\* handler runs on the main thread, SystemExit then reaches the finally
Signal ==
    /\ pc_main \in LoopPcs
    /\ ~signalled
    /\ sd["main"] = "idle"
    /\ signalled' = TRUE
    /\ ShutdownBegin("main")
    /\ pc_main' = "shutdown"
    /\ main_after' = "finally"
    /\ todo' = <<>>
    /\ handle_result' = "none"
    /\ UNCHANGED <<fixedVars, days, shutdown_event, state, monitors, threads, ownedVars>>
    /\ UNCHANGED <<sd_it, mmpc, monpc>>

\* main.py: threading.Timer(duration, bot.shutdown) (src/main.py:56-60)
TimerFires ==
    /\ sd["timer"] = "idle"
    /\ ShutdownBegin("timer")
    /\ UNCHANGED <<fixedVars, days, shutdown_event, state, monitors, threads, ownedVars>>
    /\ UNCHANGED <<pc_main, todo, main_after, signalled, handle_result, sd_it, mmpc, monpc>>

\* self.shutdown_event.set(); self.state = BotState.STOPPED (src/bot.py:686-687)
ShutdownEvent(c) ==
    /\ sd[c] = "event"
    /\ sd' = [sd EXCEPT ![c] = "ws"]
    /\ shutdown_event' = TRUE
    /\ state' = STOPPED
    /\ UNCHANGED <<fixedVars, days, running, monitors, threads, ownedVars>>
    /\ UNCHANGED <<pc_main, todo, main_after, signalled, handle_result, sd_it, mmpc, monpc>>

\* if self.ws_thread: self.ws_thread.stop(): running = False, join(timeout=5)
\* (src/bot.py:689-692, src/utils/websocket_thread.py:132-142)
ShutdownWs(c) ==
    /\ sd[c] = "ws"
    /\ sd' = [sd EXCEPT ![c] = "mm"]
    /\ ws_running' = (IF has_ws THEN FALSE ELSE ws_running)
    /\ UNCHANGED <<fixedVars, days, botVars, monitoring, stopped, cancel_calls>>
    /\ UNCHANGED <<pc_main, todo, main_after, signalled, handle_result, sd_it, mmpc, monpc>>

\* if self.market_maker: stopped = True; cancel_all_orders() (src/bot.py:694-697)
ShutdownStrategies(c) ==
    /\ sd[c] = "mm"
    /\ sd' = [sd EXCEPT ![c] = "mon_begin"]
    /\ stopped' = (IF enable_market_making THEN TRUE ELSE stopped)
    /\ cancel_calls' = (IF enable_market_making THEN cancel_calls \cup {c} ELSE cancel_calls)
    /\ UNCHANGED <<fixedVars, days, botVars, monitoring, ws_running>>
    /\ UNCHANGED <<pc_main, todo, main_after, signalled, handle_result, sd_it, mmpc, monpc>>

\* for monitor in self.monitors.values(): the iterator is created
\* (src/bot.py:704)
ShutdownMonitorsBegin(c) ==
    /\ sd[c] = "mon_begin"
    /\ sd' = [sd EXCEPT ![c] = "mon_iter"]
    /\ sd_it' = [sd_it EXCEPT ![c] = [pos |-> 0, size |-> Len(monitors)]]
    /\ UNCHANGED <<fixedVars, days, botVars, ownedVars>>
    /\ UNCHANGED <<pc_main, todo, main_after, signalled, handle_result, mmpc, monpc>>

(***************************************************************************)
(* One next() of the dict iterator and the loop body (src/bot.py:704-706). *)
(* A dict that changed size since the iterator was created makes next()    *)
(* raise RuntimeError, which leaves shutdown.  A registered Thread has no  *)
(* stop_monitoring; a RealtimeMonitor gets monitoring = False              *)
(* (src/utils/realtime_monitor.py:238-241).                                *)
(***************************************************************************)
ShutdownMonitorsNext(c) ==
    /\ sd[c] = "mon_iter"
    /\ IF Len(monitors) # sd_it[c].size
       THEN /\ sd' = [sd EXCEPT ![c] = "crashed"]
            /\ UNCHANGED <<sd_it, monitoring>>
       ELSE IF sd_it[c].pos = sd_it[c].size
       THEN /\ sd' = [sd EXCEPT ![c] = "join"]
            /\ UNCHANGED <<sd_it, monitoring>>
       ELSE /\ sd_it' = [sd_it EXCEPT ![c].pos = @ + 1]
            /\ LET e == monitors[sd_it[c].pos + 1]
               IN monitoring' = (IF e.kind = "monitor"
                                 THEN [monitoring EXCEPT ![e.m] = FALSE]
                                 ELSE monitoring)
            /\ UNCHANGED sd
    /\ UNCHANGED <<fixedVars, days, botVars, stopped, cancel_calls, ws_running>>
    /\ UNCHANGED <<pc_main, todo, main_after, signalled, handle_result, mmpc, monpc>>

\* for thread in self.threads: if thread.is_alive(): thread.join(timeout=5):
\* each join returns when its thread ended or after 5 seconds, and a list
\* tolerates appends while it is iterated (src/bot.py:708-714)
ShutdownJoin(c) ==
    /\ sd[c] = "join"
    /\ sd' = [sd EXCEPT ![c] = "complete"]
    /\ UNCHANGED <<fixedVars, days, botVars, ownedVars>>
    /\ UNCHANGED <<pc_main, todo, main_after, signalled, handle_result, sd_it, mmpc, monpc>>

\* shutdown returns to the main thread: to run()'s finally, or, from the
\* signal handler, to sys.exit(0) and so to run_main_loop's finally
ShutdownReturn ==
    /\ pc_main = "shutdown"
    /\ sd["main"] = "complete"
    /\ sd' = [sd EXCEPT !["main"] = "idle"]
    /\ pc_main' = main_after
    /\ UNCHANGED <<fixedVars, days, botVars, ownedVars>>
    /\ UNCHANGED <<todo, main_after, signalled, handle_result, sd_it, mmpc, monpc>>

ShutdownStep(c) ==
    \/ ShutdownEvent(c)
    \/ ShutdownWs(c)
    \/ ShutdownStrategies(c)
    \/ ShutdownMonitorsBegin(c)
    \/ ShutdownMonitorsNext(c)
    \/ ShutdownJoin(c)

\* run()'s finally: if self.ws_thread: self.ws_thread.stop() (src/bot.py:749-752)
RunFinally ==
    /\ pc_main = "run_finally"
    /\ pc_main' = "returned"
    /\ ws_running' = (IF has_ws THEN FALSE ELSE ws_running)
    /\ UNCHANGED <<fixedVars, days, botVars, monitoring, stopped, cancel_calls>>
    /\ UNCHANGED <<todo, main_after, signalled, handle_result, sd, sd_it, mmpc, monpc>>

(***************************************************************************)
(* MarketMakerStrategy.run_market_making_loop                              *)
(* (src/strategies/market_maker.py:334-423), as run by the thread the      *)
(* engine starts for market m.                                             *)
(***************************************************************************)
\* a loop whose condition does not look at the flag
mm_loop_exits_never == FALSE

\* while not self.stopped (src/strategies/market_maker.py:355)
mm_loop_exits == stopped

MMCheck(m) ==
    /\ mmpc[m] = "check"
    /\ mmpc' = [mmpc EXCEPT ![m] = IF mm_loop_exits THEN "cleanup" ELSE "body"]
    /\ UNCHANGED <<fixedVars, days, botVars, ownedVars>>
    /\ UNCHANGED <<pc_main, todo, main_after, signalled, handle_result, sd, sd_it, monpc>>

\* the loop body: the daily-loss breaker sets stopped and breaks
\* (src/strategies/market_maker.py:293-317, 357-360)
MMBreaker(m) ==
    /\ mmpc[m] = "body"
    /\ stopped' = TRUE
    /\ mmpc' = [mmpc EXCEPT ![m] = "cleanup"]
    /\ UNCHANGED <<fixedVars, days, botVars, monitoring, cancel_calls, ws_running>>
    /\ UNCHANGED <<pc_main, todo, main_after, signalled, handle_result, sd, sd_it, monpc>>

\* the loop body requotes, or raises and is caught; both end in
\* time.sleep(update_interval) (src/strategies/market_maker.py:367-419)
MMRequote(m) ==
    /\ mmpc[m] = "body"
    /\ mmpc' = [mmpc EXCEPT ![m] = "check"]
    /\ UNCHANGED <<fixedVars, days, botVars, ownedVars>>
    /\ UNCHANGED <<pc_main, todo, main_after, signalled, handle_result, sd, sd_it, monpc>>

\* after the loop: self.cancel_all_orders() (src/strategies/market_maker.py:421-423)
MMCleanup(m) ==
    /\ mmpc[m] = "cleanup"
    /\ mmpc' = [mmpc EXCEPT ![m] = "done"]
    /\ UNCHANGED <<fixedVars, days, botVars, ownedVars>>
    /\ UNCHANGED <<pc_main, todo, main_after, signalled, handle_result, sd, sd_it, monpc>>

(***************************************************************************)
(* The monitor thread: Thread(target=monitor.monitor_until_end_of_day)     *)
(* (src/bot.py:560-566).  monitor_until_end_of_day is a coroutine function *)
(* (async def, src/utils/realtime_monitor.py:143): the thread's call       *)
(* returns a coroutine object that nobody awaits, so no statement of its   *)
(* body (lines 165-211) runs and the thread ends.                          *)
(***************************************************************************)
\* the body as it would run were it called as a plain function: monitoring
\* is set on entry (line 165) and the loop runs while it is set (line 174)
monitor_thread_body_sync(m) ==
    \/ /\ monpc[m] = "start"
       /\ monpc' = [monpc EXCEPT ![m] = "loop"]
       /\ monitoring' = [monitoring EXCEPT ![m] = TRUE]
    \/ /\ monpc[m] = "loop"
       /\ ~monitoring[m]
       /\ monpc' = [monpc EXCEPT ![m] = "done"]
       /\ UNCHANGED monitoring

monitor_thread_body(m) ==
    /\ monpc[m] = "start"
    /\ monpc' = [monpc EXCEPT ![m] = "done"]
    /\ UNCHANGED monitoring

MonitorThread(m) ==
    /\ monitor_thread_body(m)
    /\ UNCHANGED <<fixedVars, days, botVars, stopped, cancel_calls, ws_running>>
    /\ UNCHANGED <<pc_main, todo, main_after, signalled, handle_result, sd, sd_it, mmpc>>

\* midnight: every market is one day closer to (or further past) its target
\* (src/models/market.py:203-220).  Only ProcessMarket reads days, so the
\* date is let change only when the main thread is about to process a market.
Rollover ==
    /\ pc_main = "proc"
    /\ todo # <<>>
    /\ \E m \in Markets : days[m] > MinDay
    /\ days' = [m \in Markets |-> IF days[m] > MinDay THEN days[m] - 1 ELSE days[m]]
    /\ UNCHANGED <<fixedVars, botVars, ownedVars, ctlVars>>

Next ==
    \/ RunStart
    \/ LoopEnter
    \/ LoopCheck
    \/ Scan
    \/ ProcessMarket
    \/ SkipMarket
    \/ CycleDone
    \/ Sleep
    \/ IterError
    \/ ErrSleep
    \/ Escape
    \/ Finally
    \/ Signal
    \/ TimerFires
    \/ \E c \in Callers : ShutdownEvent(c)
    \/ \E c \in Callers : ShutdownWs(c)
    \/ \E c \in Callers : ShutdownStrategies(c)
    \/ \E c \in Callers : ShutdownMonitorsBegin(c)
    \/ \E c \in Callers : ShutdownMonitorsNext(c)
    \/ \E c \in Callers : ShutdownJoin(c)
    \/ ShutdownReturn
    \/ RunFinally
    \/ \E m \in Markets : MMCheck(m)
    \/ \E m \in Markets : MMBreaker(m)
    \/ \E m \in Markets : MMRequote(m)
    \/ \E m \in Markets : MMCleanup(m)
    \/ \E m \in Markets : MonitorThread(m)
    \/ Rollover

(***************************************************************************)
(* The streaming client (src/clients/polymarket_ws.py) inside the event    *)
(* loop of its thread (src/utils/websocket_thread.py).  Tasks of one event *)
(* loop interleave at their awaits only: each action is the code between   *)
(* two awaits.  Connections and the listen and ping tasks created with     *)
(* them carry the same number, 1..MaxConn, in order of creation.           *)
(***************************************************************************)
ConnIds == 1..MaxConn

\* a finished or cancelled task: Task.done()
DonePcs == {"done", "cancelled"}

\* positions at which a task is suspended in an await
ListenAwaits == {"new", "iter", "backoff", "connecting", "resub"}

PingAwaits == {"new", "sleep"}

Min(a, b) == IF a < b THEN a ELSE b

Max(a, b) == IF a > b THEN a ELSE b

Backoff_linear(n) == Min(2 * n, MaxBackoff)

\* backoff = min(2 ** self.reconnect_attempts, 60) (src/clients/polymarket_ws.py:384)
Backoff(n) == Min(2 ^ n, MaxBackoff)

\* the number the next connection gets
NextId == Cardinality({k \in ConnIds : conns[k] # "none"}) + 1

NoTask == [pc |-> "none", conn |-> 0, cancel |-> FALSE, attempt |-> 0, backoff |-> 0, snap |-> {},
           lost |-> {}]

\* a task that has ended: its locals are gone
Ended(pc) == [NoTask EXCEPT !.pc = pc]

\* PolymarketWebSocketClient.__init__ (src/clients/polymarket_ws.py:54-75) and
\* WebSocketThread.start (src/utils/websocket_thread.py:44-54)
WsInit ==
    /\ client = [websocket |-> 0, subscribed_assets |-> {}, running |-> FALSE,
                 connected |-> FALSE, reconnect_attempts |-> 0,
                 listen_task |-> 0, ping_task |-> 0, tried |-> 0, resub_conn |-> 0]
    /\ conns = [k \in ConnIds |-> "none"]
    /\ listen = [k \in ConnIds |-> NoTask]
    /\ ping = [k \in ConnIds |-> [pc |-> "none", cancel |-> FALSE]]
    /\ apc = "connect"
    /\ d_wait = 0
    /\ thread_running = TRUE

\* the client never created, for the specifications of the other components
WsIdle ==
    /\ client = [websocket |-> 0, subscribed_assets |-> {}, running |-> FALSE,
                 connected |-> FALSE, reconnect_attempts |-> 0,
                 listen_task |-> 0, ping_task |-> 0, tried |-> 0, resub_conn |-> 0]
    /\ conns = [k \in ConnIds |-> "none"]
    /\ listen = [k \in ConnIds |-> NoTask]
    /\ ping = [k \in ConnIds |-> [pc |-> "none", cancel |-> FALSE]]
    /\ apc = "done"
    /\ d_wait = 0
    /\ thread_running = FALSE

\* the event loop runs until _async_run has returned
\* (src/utils/websocket_thread.py:77-85)
LoopAlive == apc # "done"

(***************************************************************************)
(* connect after websockets.connect returned a connection                  *)
(* (src/clients/polymarket_ws.py:83-97).                                   *)
(***************************************************************************)
Connected(cl) ==
    [cl EXCEPT !.websocket = NextId, !.connected = TRUE, !.running = TRUE,
               !.reconnect_attempts = 0, !.listen_task = NextId, !.ping_task = NextId]

(***************************************************************************)
(* _reconnect up to its first await, entered by task k with the client     *)
(* fields cl (src/clients/polymarket_ws.py:376-389).                       *)
(***************************************************************************)
reconnect(k, cl) ==
    IF cl.reconnect_attempts >= max_reconnect_attempts
    THEN /\ client' = [cl EXCEPT !.running = FALSE]
         /\ listen' = [listen EXCEPT ![k] = Ended("done")]
    ELSE /\ client' = [cl EXCEPT !.reconnect_attempts = @ + 1, !.tried = @ + 1]
         /\ listen' = [listen EXCEPT ![k] = [NoTask EXCEPT
                            !.pc = "backoff",
                            !.lost = IF listen[k].pc = "iter"
                                     THEN cl.subscribed_assets ELSE listen[k].lost,
                            !.attempt = cl.reconnect_attempts + 1,
                            !.backoff = Backoff(cl.reconnect_attempts + 1)]]

\* if self.auto_reconnect and self.running: await self._reconnect()
\* else: self.running = False
\* (src/clients/polymarket_ws.py:147-150, 408-412)
OnFailure(k, cl) ==
    IF auto_reconnect /\ cl.running
    THEN reconnect(k, cl)
    ELSE /\ client' = [cl EXCEPT !.running = FALSE]
         /\ listen' = [listen EXCEPT ![k] = Ended("done")]

\* a task runs when the loop is alive and no cancellation is pending for it
MayRun(k) == LoopAlive /\ ~listen[k].cancel

(***************************************************************************)
(* _listen (src/clients/polymarket_ws.py:136-164).                         *)
(***************************************************************************)
\* first step of the task: async for message in self.websocket; None is not
\* iterable, which ends in except Exception
LStart(k) ==
    /\ MayRun(k)
    /\ listen[k].pc = "new"
    /\ IF client.websocket = 0
       THEN /\ client' = [client EXCEPT !.connected = FALSE, !.running = FALSE]
            /\ listen' = [listen EXCEPT ![k] = Ended("done")]
       ELSE /\ listen' = [listen EXCEPT ![k].pc = "iter", ![k].conn = client.websocket]
            /\ UNCHANGED client
    /\ UNCHANGED <<conns, ping, apc, d_wait, thread_running, nonWsVars>>

\* the connection was closed with a normal close code: the iteration ends
LClosedOk(k) ==
    /\ MayRun(k)
    /\ listen[k].pc = "iter"
    /\ conns[listen[k].conn] = "closed_ok"
    /\ listen' = [listen EXCEPT ![k] = Ended("done")]
    /\ UNCHANGED <<client, conns, ping, apc, d_wait, thread_running, nonWsVars>>

\* except ConnectionClosed / WebSocketException
LClosedErr(k) ==
    /\ MayRun(k)
    /\ listen[k].pc = "iter"
    /\ conns[listen[k].conn] = "closed_err"
    /\ OnFailure(k, [client EXCEPT !.connected = FALSE])
    /\ UNCHANGED <<conns, ping, apc, d_wait, thread_running, nonWsVars>>

\* subscribe that keeps the ids of the last call only
subscribed_after_replace(assets, ids) == ids

\* self.subscribed_assets.update(asset_ids) (src/clients/polymarket_ws.py:127)
subscribed_after(assets, ids) == assets \cup ids

\* a re-subscription that lists nothing
resub_assets_none(cl) == {}

\* list(self.subscribed_assets), the argument of the re-subscription
\* (src/clients/polymarket_ws.py:401)
resub_assets(cl) == cl.subscribed_assets

(***************************************************************************)
(* _reconnect after its sleep (src/clients/polymarket_ws.py:389-412).      *)
(***************************************************************************)
\* the sleep is over: close the old connection, then call connect
LWake(k) ==
    /\ MayRun(k)
    /\ listen[k].pc = "backoff"
    /\ listen' = [listen EXCEPT ![k] = [NoTask EXCEPT !.pc = "connecting",
                                                      !.lost = listen[k].lost]]
    /\ conns' = IF client.websocket # 0 /\ conns[client.websocket] = "open"
                THEN [conns EXCEPT ![client.websocket] = "closed_ok"]
                ELSE conns
    /\ UNCHANGED <<client, ping, apc, d_wait, thread_running, nonWsVars>>

\* connect succeeded: fields set, tasks created; then the re-subscription
\* is sent when subscribed_assets is not empty
LConnectOk(k) ==
    /\ MayRun(k)
    /\ listen[k].pc = "connecting"
    /\ NextId <= MaxConn
    /\ client' = IF client.subscribed_assets # {}
                 THEN Connected(client)
                 ELSE [Connected(client) EXCEPT !.tried = 0]
    /\ conns' = [conns EXCEPT ![NextId] = "open"]
    /\ ping' = [ping EXCEPT ![NextId].pc = "new"]
    /\ listen' = [listen EXCEPT
           ![NextId].pc = "new",
           ![k] = IF client.subscribed_assets # {}
                  THEN [NoTask EXCEPT !.pc = "resub", !.conn = NextId,
                                      !.lost = listen[k].lost,
                                      !.snap = resub_assets(client)]
                  ELSE Ended("done")]
    /\ UNCHANGED <<apc, d_wait, thread_running, nonWsVars>>

\* connect raised: connected = False, then _reconnect's except Exception
LConnectFail(k) ==
    /\ MayRun(k)
    /\ listen[k].pc = "connecting"
    /\ OnFailure(k, [client EXCEPT !.connected = FALSE])
    /\ UNCHANGED <<conns, ping, apc, d_wait, thread_running, nonWsVars>>

\* the re-subscription was sent: self.subscribed_assets.update(asset_ids)
LResubOk(k) ==
    /\ MayRun(k)
    /\ listen[k].pc = "resub"
    /\ conns[listen[k].conn] = "open"
    /\ client' = [client EXCEPT !.subscribed_assets = subscribed_after(@, listen[k].snap),
                                !.tried = 0,
                                !.resub_conn = listen[k].conn]
    /\ listen' = [listen EXCEPT ![k] = Ended("done")]
    /\ UNCHANGED <<conns, ping, apc, d_wait, thread_running, nonWsVars>>

\* the send raised: _reconnect's except Exception
LResubFail(k) ==
    /\ MayRun(k)
    /\ listen[k].pc = "resub"
    /\ conns[listen[k].conn] # "open"
    /\ OnFailure(k, client)
    /\ UNCHANGED <<conns, ping, apc, d_wait, thread_running, nonWsVars>>

\* CancelledError is thrown into the task at its await; no except clause of
\* _listen or _reconnect holds it
LCancelled(k) ==
    /\ LoopAlive
    /\ listen[k].cancel
    /\ listen[k].pc \in ListenAwaits
    /\ listen' = [listen EXCEPT ![k] = Ended("cancelled")]
    /\ UNCHANGED <<client, conns, ping, apc, d_wait, thread_running, nonWsVars>>

(***************************************************************************)
(* _ping_loop (src/clients/polymarket_ws.py:357-374).                      *)
(***************************************************************************)
\* first test of while self.running and self.connected
PStart(k) ==
    /\ LoopAlive
    /\ ~ping[k].cancel
    /\ ping[k].pc = "new"
    /\ ping' = [ping EXCEPT ![k].pc = IF client.running /\ client.connected
                                      THEN "sleep" ELSE "done"]
    /\ UNCHANGED <<client, conns, listen, apc, d_wait, thread_running, nonWsVars>>

\* the sleep is over: PING is sent on self.websocket when connected, a send
\* that raises breaks the loop; then the while condition is tested again
PWake(k) ==
    /\ LoopAlive
    /\ ~ping[k].cancel
    /\ ping[k].pc = "sleep"
    /\ ping' = [ping EXCEPT ![k].pc =
           IF client.websocket # 0 /\ client.connected /\ conns[client.websocket] # "open"
           THEN "done"
           ELSE IF client.running /\ client.connected THEN "sleep" ELSE "done"]
    /\ UNCHANGED <<client, conns, listen, apc, d_wait, thread_running, nonWsVars>>

\* except asyncio.CancelledError
PCancelled(k) ==
    /\ LoopAlive
    /\ ping[k].cancel
    /\ ping[k].pc \in PingAwaits
    /\ ping' = [ping EXCEPT ![k] = [pc |-> "cancelled", cancel |-> FALSE]]
    /\ UNCHANGED <<client, conns, listen, apc, d_wait, thread_running, nonWsVars>>

(***************************************************************************)
(* disconnect (src/clients/polymarket_ws.py:415-444).  The three parts     *)
(* follow one another without an await when a task to cancel is missing.   *)
(***************************************************************************)
\* if self.websocket: await self.websocket.close() ... else the rest
DClosePart(cl) ==
    IF cl.websocket # 0
    THEN /\ conns' = IF conns[cl.websocket] = "open"
                     THEN [conns EXCEPT ![cl.websocket] = "closed_ok"] ELSE conns
         /\ client' = cl
         /\ apc' = "d_closing"
         /\ d_wait' = 0
    ELSE /\ client' = [cl EXCEPT !.subscribed_assets = {}]
         /\ apc' = "done"
         /\ d_wait' = 0
         /\ UNCHANGED conns

\* if self.listen_task and not self.listen_task.done(): cancel and await it
DListenPart(cl) ==
    IF cl.listen_task # 0 /\ listen[cl.listen_task].pc \notin DonePcs
    THEN /\ listen' = [listen EXCEPT ![cl.listen_task].cancel = TRUE]
         /\ d_wait' = cl.listen_task
         /\ apc' = "d_await_listen"
         /\ client' = cl
         /\ UNCHANGED conns
    ELSE /\ DClosePart(cl)
         /\ UNCHANGED listen

\* disconnect up to its first await, entered with the client fields cl:
\* running and connected cleared, then the ping task
disconnect(cl) ==
    LET c == [cl EXCEPT !.running = FALSE, !.connected = FALSE]
    IN IF c.ping_task # 0 /\ ping[c.ping_task].pc \notin DonePcs
       THEN /\ ping' = [ping EXCEPT ![c.ping_task].cancel = TRUE]
            /\ d_wait' = c.ping_task
            /\ apc' = "d_await_ping"
            /\ client' = c
            /\ UNCHANGED <<conns, listen>>
       ELSE /\ DListenPart(c)
            /\ UNCHANGED ping

\* await self.ping_task returned
DAwaitPing ==
    /\ apc = "d_await_ping"
    /\ ping[d_wait].pc \in DonePcs
    /\ DListenPart(client)
    /\ UNCHANGED <<ping, thread_running, nonWsVars>>

\* await self.listen_task raised CancelledError or returned
DAwaitListen ==
    /\ apc = "d_await_listen"
    /\ listen[d_wait].pc \in DonePcs
    /\ DClosePart(client)
    /\ UNCHANGED <<listen, ping, thread_running, nonWsVars>>

\* await self.websocket.close() returned: self.websocket = None;
\* self.subscribed_assets.clear(); disconnect and _async_run return and the
\* event loop is closed
DClosed ==
    /\ apc = "d_closing"
    /\ client' = [client EXCEPT !.websocket = 0, !.subscribed_assets = {}]
    /\ apc' = "done"
    /\ UNCHANGED <<conns, listen, ping, d_wait, thread_running, nonWsVars>>

(***************************************************************************)
(* WebSocketThread._async_run (src/utils/websocket_thread.py:87-102).      *)
(***************************************************************************)
\* await self.client.connect() succeeded
AConnectOk ==
    /\ apc = "connect"
    /\ NextId <= MaxConn
    /\ client' = Connected(client)
    /\ conns' = [conns EXCEPT ![NextId] = "open"]
    /\ ping' = [ping EXCEPT ![NextId].pc = "new"]
    /\ listen' = [listen EXCEPT ![NextId].pc = "new"]
    /\ apc' = "loop"
    /\ UNCHANGED <<d_wait, thread_running, nonWsVars>>

\* connect raised: connected = False, except Exception, then disconnect in
\* the finally clause
AConnectFail ==
    /\ apc = "connect"
    /\ disconnect([client EXCEPT !.connected = FALSE])
    /\ UNCHANGED <<thread_running, nonWsVars>>

\* WebSocketThread.stop from another thread: self.running = False
\* (src/utils/websocket_thread.py:132-136)
ThreadStop ==
    /\ thread_running
    /\ thread_running' = FALSE
    /\ UNCHANGED <<client, conns, listen, ping, apc, d_wait, nonWsVars>>

\* while self.running: await asyncio.sleep(1) sees the flag cleared, and
\* the finally clause enters disconnect
ALoopExit ==
    /\ apc = "loop"
    /\ ~thread_running
    /\ disconnect(client)
    /\ UNCHANGED <<thread_running, nonWsVars>>

(***************************************************************************)
(* The environment of the client.                                          *)
(***************************************************************************)
\* the connection is lost or closed with an error code
ConnDrop(k) ==
    /\ LoopAlive
    /\ conns[k] = "open"
    /\ conns' = [conns EXCEPT ![k] = "closed_err"]
    /\ UNCHANGED <<client, listen, ping, apc, d_wait, thread_running, nonWsVars>>

\* the server closes the connection with a normal close code
ConnClose(k) ==
    /\ LoopAlive
    /\ conns[k] = "open"
    /\ conns' = [conns EXCEPT ![k] = "closed_ok"]
    /\ UNCHANGED <<client, listen, ping, apc, d_wait, thread_running, nonWsVars>>

\* WebSocketThread.subscribe runs client.subscribe in the loop
\* (src/utils/websocket_thread.py:104-126, src/clients/polymarket_ws.py:105-134);
\* it changes the client when the send succeeds
Subscribe(a) ==
    /\ LoopAlive
    /\ apc # "connect"
    /\ client.websocket # 0
    /\ client.connected
    /\ conns[client.websocket] = "open"
    /\ client' = [client EXCEPT !.subscribed_assets = subscribed_after(@, {a})]
    /\ UNCHANGED <<conns, listen, ping, apc, d_wait, thread_running, nonWsVars>>

NextWs ==
    \/ AConnectOk
    \/ AConnectFail
    \/ ThreadStop
    \/ ALoopExit
    \/ DAwaitPing
    \/ DAwaitListen
    \/ DClosed
    \/ \E k \in ConnIds : LStart(k)
    \/ \E k \in ConnIds : LClosedOk(k)
    \/ \E k \in ConnIds : LClosedErr(k)
    \/ \E k \in ConnIds : LWake(k)
    \/ \E k \in ConnIds : LConnectOk(k)
    \/ \E k \in ConnIds : LConnectFail(k)
    \/ \E k \in ConnIds : LResubOk(k)
    \/ \E k \in ConnIds : LResubFail(k)
    \/ \E k \in ConnIds : LCancelled(k)
    \/ \E k \in ConnIds : PStart(k)
    \/ \E k \in ConnIds : PWake(k)
    \/ \E k \in ConnIds : PCancelled(k)
    \/ \E k \in ConnIds : ConnDrop(k)
    \/ \E k \in ConnIds : ConnClose(k)
    \/ \E a \in Assets : Subscribe(a)

(***************************************************************************)
(* The price-change handler (src/bot.py:167-282) in the streaming thread,  *)
(* beside the main thread's caching of forecasts and markets               *)
(* (src/bot.py:617-619).  Prices, confidences and edges are in hundredths. *)
(***************************************************************************)
Tokens == {"t1", "t2", "t3"}

\* the market whose outcomes carry the token
TokenMarket == [t \in Tokens |-> IF t = "t3" THEN "m2" ELSE "m1"]

Temps == {70, 71}

\* TemperatureRange of the outcome of each token: up to 70, from 71, up to 70
temperature_range ==
    [t \in Tokens |->
        IF t = "t2"
        THEN [has_min |-> TRUE, min_temp |-> 71, has_max |-> FALSE, max_temp |-> 0]
        ELSE [has_min |-> FALSE, min_temp |-> 0, has_max |-> TRUE, max_temp |-> 70]]

\* TemperatureRange.contains (src/models/market.py:32-46)
contains(r, temp) ==
    IF r.has_min /\ temp < r.min_temp
    THEN FALSE
    ELSE IF r.has_max /\ temp > r.max_temp
    THEN FALSE
    ELSE TRUE

\* best_ask of a price-change message
Asks == {50, 55, 60}

\* outcome prices of a freshly scanned market
ScanPrices == {50}

\* forecasts get_forecast_for_market may return
Forecasts == [max_temperature : Temps, confidence : {60}]

\* self.forecasts.get(market_id) gave None
NoForecast == [max_temperature |-> 0, confidence |-> 0]

\* min_edge: float = 0.05 (src/strategies/position_taker.py:34)
min_edge == 5

\* the markets in self.markets
Tracked == {markets[i] : i \in 1..Len(markets)}

\* TradingBot.__init__ (src/bot.py:87-90)
TickInit ==
    /\ markets = <<>>
    /\ forecasts = [m \in Markets |-> NoForecast]
    /\ price = [t \in Tokens |-> 0]
    /\ tick_orders = {}
    /\ cache_pc = "idle"
    /\ hpc = "idle"
    /\ h_tok = "t1"
    /\ h_ask = 0
    /\ h_it = [pos |-> 0, size |-> 0]
    /\ h_stale = FALSE
    /\ tick_result = "none"
    /\ escaped = FALSE
    /\ tick_on = TRUE

\* no price-change is ever delivered, for the specifications of the other
\* components
TickIdle ==
    /\ markets = <<>>
    /\ forecasts = [m \in Markets |-> NoForecast]
    /\ price = [t \in Tokens |-> 0]
    /\ tick_orders = {}
    /\ cache_pc = "idle"
    /\ hpc = "idle"
    /\ h_tok = "t1"
    /\ h_ask = 0
    /\ h_it = [pos |-> 0, size |-> 0]
    /\ h_stale = FALSE
    /\ tick_result = "none"
    /\ escaped = FALSE
    /\ tick_on = FALSE

\* the two cache writes in the other order: the market object is stored
\* first
CacheForecast_market_first(m, f) ==
    /\ tick_on
    /\ cache_pc = "idle"
    /\ markets' = IF m \in Tracked THEN markets ELSE Append(markets, m)
    /\ cache_pc' = m
    /\ UNCHANGED <<forecasts, price, tick_orders, hpc, h_tok, h_ask, h_it, h_stale,
                   tick_result, escaped, tick_on, nonTickVars>>

\* self.forecasts[market.market_id] = forecast (src/bot.py:618)
CacheForecast(m, f) ==
    /\ tick_on
    /\ cache_pc = "idle"
    /\ forecasts' = [forecasts EXCEPT ![m] = f]
    /\ cache_pc' = m
    /\ UNCHANGED <<markets, price, tick_orders, hpc, h_tok, h_ask, h_it, h_stale,
                   tick_result, escaped, tick_on, nonTickVars>>

\* self.markets[market.market_id] = market (src/bot.py:619): the market
\* object of this scan, with the prices of this scan, takes the place of the
\* cached one; a handler that holds an outcome of the old object is left
\* with an object that is no longer cached
CacheMarket(p) ==
    /\ cache_pc \in Markets
    /\ markets' = IF cache_pc \in Tracked THEN markets ELSE Append(markets, cache_pc)
    /\ price' = [t \in Tokens |-> IF TokenMarket[t] = cache_pc THEN p ELSE price[t]]
    /\ h_stale' = (h_stale \/ (hpc = "update" /\ TokenMarket[h_tok] = cache_pc))
    /\ cache_pc' = "idle"
    /\ UNCHANGED <<forecasts, tick_orders, hpc, h_tok, h_ask, h_it,
                   tick_result, escaped, tick_on, nonTickVars>>

\* an exception raised in the handler without its try statement
HandlerExcept_uncaught ==
    /\ tick_result' = "error"
    /\ escaped' = TRUE

\* except Exception as e: logger.error(...) (src/bot.py:209-210)
HandlerExcept ==
    /\ tick_result' = "error"
    /\ UNCHANGED escaped

\* _on_price_change up to the call of _find_market_and_outcome_by_token
\* (src/bot.py:175-188); a message without best_ask is dropped
TickArrive(t, has_ask, ask) ==
    /\ tick_on
    /\ hpc = "idle"
    /\ IF has_ask
       THEN /\ hpc' = "find"
            /\ h_tok' = t
            /\ h_ask' = ask
            /\ h_it' = [pos |-> 0, size |-> Len(markets)]
            /\ h_stale' = FALSE
            /\ tick_result' = "none"
       ELSE /\ tick_result' = "incomplete"
            /\ UNCHANGED <<hpc, h_tok, h_ask, h_it, h_stale>>
    /\ UNCHANGED <<markets, forecasts, price, tick_orders, cache_pc, escaped,
                   tick_on, nonTickVars>>

\* one step of for market_id, market in self.markets.items()
\* (src/bot.py:225-229): the iterator raises RuntimeError when the dict has
\* changed size since the loop began
TickFind ==
    /\ hpc = "find"
    /\ IF Len(markets) # h_it.size
       THEN /\ HandlerExcept
            /\ hpc' = "idle"
            /\ UNCHANGED h_it
       ELSE IF h_it.pos = h_it.size
       THEN /\ tick_result' = "untracked"
            /\ hpc' = "idle"
            /\ UNCHANGED <<h_it, escaped>>
       ELSE IF TokenMarket[h_tok] = markets[h_it.pos + 1]
       THEN /\ hpc' = "update"
            /\ UNCHANGED <<h_it, tick_result, escaped>>
       ELSE /\ h_it' = [h_it EXCEPT !.pos = @ + 1]
            /\ UNCHANGED <<hpc, tick_result, escaped>>
    /\ UNCHANGED <<markets, forecasts, price, tick_orders, cache_pc, h_tok, h_ask,
                   h_stale, tick_on, nonTickVars>>

\* _check_real_time_edge (src/bot.py:231-282): when the forecast predicts
\* the outcome, the comparison reads self.settings.min_edge, a field
\* Settings does not have (src/config/settings.py:11-186): AttributeError
check_real_time_edge(t, forecast) ==
    IF ~contains(temperature_range[t], forecast.max_temperature)
    THEN /\ tick_result' = "updated"
         /\ UNCHANGED escaped
    ELSE HandlerExcept

\* outcome.price = float(best_ask); forecast = self.forecasts.get(...);
\* if forecast: self._check_real_time_edge(...) (src/bot.py:195-207)
TickUpdate ==
    /\ hpc = "update"
    /\ price' = IF h_stale THEN price ELSE [price EXCEPT ![h_tok] = h_ask]
    /\ IF forecasts[TokenMarket[h_tok]] # NoForecast
       THEN check_real_time_edge(h_tok, forecasts[TokenMarket[h_tok]])
       ELSE /\ tick_result' = "updated"
            /\ UNCHANGED escaped
    /\ hpc' = "idle"
    /\ UNCHANGED <<markets, forecasts, tick_orders, cache_pc, h_tok, h_ask, h_it,
                   h_stale, tick_on, nonTickVars>>

NextTick ==
    \/ \E m \in Markets, f \in Forecasts : CacheForecast(m, f)
    \/ \E p \in ScanPrices : CacheMarket(p)
    \/ \E t \in Tokens, has_ask \in BOOLEAN, ask \in Asks : TickArrive(t, has_ask, ask)
    \/ TickFind
    \/ TickUpdate

(***************************************************************************)
(* subscribe (src/clients/polymarket_ws.py:105-134) called again and       *)
(* again, as scan_markets does with all token ids of every scan            *)
(* (src/bot.py:357-367), over a connection that comes and goes.            *)
(***************************************************************************)
AssetIds == {"a1", "a2"}

Links == {"none", "open", "broken"}

\* how a call ends: RuntimeError before the send when there is no websocket
\* or the client is not connected, the send's exception raised again, or
\* the update of the set
subscribe_outcome(link) ==
    IF link = "none"
    THEN "refused"
    ELSE IF link = "broken"
    THEN "send_failed"
    ELSE "ok"

SubInit ==
    sub = [assets |-> {}, passed |-> {}, before |-> {}, ids |-> {},
           outcome |-> "none", link |-> "none"]

\* subscribe is never called, for the specifications of the other components
SubIdle ==
    sub = [assets |-> {}, passed |-> {}, before |-> {}, ids |-> {},
           outcome |-> "none", link |-> "off"]

\* await client.subscribe(ids)
SubCall(ids) ==
    /\ sub.link \in Links
    /\ sub' = [sub EXCEPT
           !.before = sub.assets,
           !.ids = ids,
           !.outcome = subscribe_outcome(sub.link),
           !.assets = IF subscribe_outcome(sub.link) = "ok"
                      THEN subscribed_after(sub.assets, ids) ELSE sub.assets,
           !.passed = IF subscribe_outcome(sub.link) = "ok"
                      THEN sub.passed \cup ids ELSE sub.passed]
    /\ UNCHANGED nonSubVars

\* the connection is established, breaks or is lost between two calls
SubLink(l) ==
    /\ sub.link \in Links
    /\ l # sub.link
    /\ sub' = [sub EXCEPT !.link = l]
    /\ UNCHANGED nonSubVars

NextSub ==
    \/ \E ids \in SUBSET AssetIds : SubCall(ids)
    \/ \E l \in Links : SubLink(l)

(***************************************************************************)
(* The dispatch of incoming frames: _listen's loop over the connection     *)
(* (src/clients/polymarket_ws.py:135-164) handing every frame to           *)
(* _handle_message (166-204), which hands events to _process_event         *)
(* (206-233) and that to the handler of the event type (235-355).          *)
(***************************************************************************)
MaxItems == 2

\* the event types _process_event dispatches on
KnownEvents == {"price_change", "book", "last_trade_price", "tick_size_change"}

\* what an item of a frame can be: an object with a known event type, an
\* object with another or no event type, something that is no object
ItemKinds == KnownEvents \cup {"unknown", "non_dict"}

RECURSIVE ItemSeqs(_)
ItemSeqs(n) ==
    IF n = 0
    THEN {<<>>}
    ELSE ItemSeqs(n - 1) \cup
         {Append(q, i) : q \in {x \in ItemSeqs(n - 1) : Len(x) = n - 1}, i \in ItemKinds}

\* a frame: the text PONG, text that is no JSON, a JSON scalar, one JSON
\* object, a JSON array
Frames ==
    {[type |-> t, items |-> <<>>] : t \in {"PONG", "non_json", "scalar"}}
    \cup {[type |-> "dict", items |-> <<i>>] : i \in ItemKinds \ {"non_dict"}}
    \cup {[type |-> "list", items |-> q] : q \in ItemSeqs(MaxItems)}

CallbackBehaviours == {"returns", "raises"}

\* the outcome of a block of code: the callbacks it invoked and whether an
\* exception leaves it
Quiet == [calls |-> <<>>, raised |-> FALSE]

except_Exception_reraise(r) == r

\* try: ... except Exception: log
except_Exception(r) == [r EXCEPT !.raised = FALSE]

\* if self.on_X: try: call it, except Exception: log
call_callback(kind, registered, cb) ==
    IF kind \in registered
    THEN except_Exception([calls |-> <<kind>>, raised |-> cb = "raises"])
    ELSE Quiet

_process_event(kind, registered, cb) ==
    except_Exception(IF kind \in KnownEvents
                     THEN call_callback(kind, registered, cb)
                     ELSE Quiet)

\* for item in data: if isinstance(item, dict): await _process_event(item)
RECURSIVE process_items(_, _, _)
process_items(items, registered, cb) ==
    IF items = <<>>
    THEN Quiet
    ELSE LET r == IF Head(items) = "non_dict"
                  THEN Quiet
                  ELSE _process_event(Head(items), registered, cb)
         IN  IF r.raised
             THEN r
             ELSE LET rest == process_items(Tail(items), registered, cb)
                  IN  [calls |-> r.calls \o rest.calls, raised |-> rest.raised]

_handle_message(frame, registered, cb) ==
    except_Exception(
        IF frame.type \in {"PONG", "non_json", "scalar"}
        THEN Quiet
        ELSE process_items(frame.items, registered, cb))

MsgInit ==
    \E reg \in SUBSET KnownEvents :
        msg = [frame |-> [type |-> "none", items |-> <<>>], cb |-> "returns",
               calls |-> <<>>, registered |-> reg, connected |-> TRUE,
               running |-> TRUE, subscribed_assets |-> {"a1"},
               loop |-> "iterating"]

\* no connection is read, for the specifications of the other components
MsgIdle ==
    msg = [frame |-> [type |-> "none", items |-> <<>>], cb |-> "returns",
           calls |-> <<>>, registered |-> {}, connected |-> FALSE,
           running |-> FALSE, subscribed_assets |-> {},
           loop |-> "off"]

\* one iteration of async for message in self.websocket; an exception that
\* leaves _handle_message is _listen's except Exception
MsgFrame(frame, cb) ==
    /\ msg.loop = "iterating"
    /\ LET r == _handle_message(frame, msg.registered, cb)
       IN  msg' = [msg EXCEPT
               !.frame = frame,
               !.cb = cb,
               !.calls = r.calls,
               !.connected = IF r.raised THEN FALSE ELSE @,
               !.running = IF r.raised THEN FALSE ELSE @,
               !.loop = IF r.raised THEN "ended" ELSE @]
    /\ UNCHANGED nonMsgVars

NextMsg ==
    \E frame \in Frames, cb \in CallbackBehaviours : MsgFrame(frame, cb)

(***************************************************************************)
(* run_market_making_loop (src/strategies/market_maker.py:334-423) of one  *)
(* market, in its own thread, against the gateway the strategy was built   *)
(* with: PolymarketSimulator, whose methods are plain functions, or        *)
(* PolymarketClient, whose methods are coroutine functions that the loop   *)
(* calls without await.  Money is in USDC, inventory in shares.            *)
(***************************************************************************)
MaxIters == 2

max_daily_loss == 50

max_inventory == 500

InitialBalance == 1000

Gateways == {"sync", "async"}

\* the balance the gateway may hold: unchanged, a loss of exactly
\* max_daily_loss, a loss just above it
Balances ==
    {InitialBalance, InitialBalance - max_daily_loss,
     InitialBalance - max_daily_loss - 1}

\* Position.current_value: shares * current_price; the positions a caller
\* may have put into the strategy: none, one at the inventory limit, one
\* just above it, each worth 1 USDC
PositionLists ==
    {<<>>,
     <<[outcome_id |-> "o1", shares |-> max_inventory, value |-> 1]>>,
     <<[outcome_id |-> "o1", shares |-> max_inventory + 1, value |-> 1]>>}

RECURSIVE position_value(_)
position_value(positions) ==
    IF positions = <<>>
    THEN 0
    ELSE Head(positions).value + position_value(Tail(positions))

\* update_inventory: the dict rebuilt from self.positions
update_inventory(positions) ==
    {[outcome_id |-> positions[i].outcome_id, shares |-> positions[i].shares] :
        i \in 1..Len(positions)}

\* what self.client.get_balance() returns to a caller that does not await
get_balance(gateway, cash) ==
    IF gateway = "sync"
    THEN [type |-> "float", value |-> cash]
    ELSE [type |-> "coroutine", value |-> 0]

check_inventory_hard(inventory) ==
    \E p \in inventory : p.shares > max_inventory

\* the inventory loop of check_circuit_breakers: an alert, return False
check_inventory(inventory) == FALSE

\* check_circuit_breakers: "raised" when the arithmetic on a coroutine
\* raises TypeError, else the value returned and the flag
check_circuit_breakers(m) ==
    LET current_balance == get_balance(m.gateway, m.cash)
    IN  IF current_balance.type = "coroutine" \/ m.session_start_balance.type = "coroutine"
        THEN [result |-> "raised", stopped |-> m.stopped, daily_pnl |-> m.daily_pnl]
        ELSE LET pnl == (current_balance.value + position_value(m.positions))
                          - m.session_start_balance.value
             IN  IF pnl < 0 - max_daily_loss
                 THEN [result |-> "true", stopped |-> TRUE, daily_pnl |-> pnl]
                 ELSE IF check_inventory(m.inventory)
                 THEN [result |-> "true", stopped |-> TRUE, daily_pnl |-> pnl]
                 ELSE [result |-> "false", stopped |-> m.stopped, daily_pnl |-> pnl]

\* the ids place_market_making_orders gets placed at the venue: an order
\* the gateway refuses raises, and so does the log line that slices the
\* coroutine an asynchronous gateway returns instead of an id
placed_ids(gateway, n, bid_ok, ask_ok) ==
    IF gateway = "async"
    THEN {}
    ELSE (IF bid_ok THEN {2 * n + 1} ELSE {}) \cup (IF ask_ok THEN {2 * n + 2} ELSE {})

\* what place_market_making_orders adds to self.active_orders
tracked_ids(ids) == {}

MmlStart(gw, positions) ==
    [gateway |-> gw, cash |-> InitialBalance,
     session_start_balance |-> get_balance(gw, InitialBalance),
     positions |-> positions, inventory |-> {}, active_orders |-> {},
     stopped |-> FALSE, daily_pnl |-> 0, venue |-> {}, prev |-> {}, cur |-> {},
     breaker |-> "none", pc |-> "while", iter |-> 0, n |-> 0]

MmlInit ==
    \E gw \in Gateways, positions \in PositionLists : mml = MmlStart(gw, positions)

\* no loop is started, for the specifications of the other components
MmlIdle == mml = [MmlStart("sync", <<>>) EXCEPT !.pc = "off"]

\* cancel_all_orders: every id of active_orders is cancelled at the gateway
\* and forgotten
cancel_all_orders(m) ==
    [m EXCEPT !.venue = @ \ m.active_orders, !.active_orders = {}]

\* while not self.stopped
MmlWhile ==
    /\ mml.pc = "while"
    /\ mml' = [mml EXCEPT !.pc = IF mml.stopped THEN "cleanup" ELSE "breaker"]
    /\ UNCHANGED nonMmlVars

\* if self.check_circuit_breakers(): break; a TypeError is the loop's
\* except Exception
MmlBreaker ==
    /\ mml.pc = "breaker"
    /\ LET r == check_circuit_breakers(mml)
       IN  mml' = [mml EXCEPT
               !.breaker = r.result,
               !.stopped = r.stopped,
               !.daily_pnl = r.daily_pnl,
               !.pc = IF r.result = "raised" THEN "errsleep"
                      ELSE IF r.result = "true" THEN "cleanup"
                      ELSE "duration"]
    /\ UNCHANGED nonMmlVars

\* if duration and elapsed >= duration: break
MmlDuration(reached) ==
    /\ mml.pc = "duration"
    /\ mml' = [mml EXCEPT !.pc = IF reached THEN "cleanup" ELSE "refresh"]
    /\ UNCHANGED nonMmlVars

\* self.update_positions() creates a coroutine that is never awaited;
\* update_inventory; cancel_all_orders
MmlRefresh ==
    /\ mml.pc = "refresh"
    /\ mml' = [cancel_all_orders(mml) EXCEPT
               !.inventory = update_inventory(mml.positions),
               !.prev = mml.cur,
               !.cur = {},
               !.pc = "place"]
    /\ UNCHANGED nonMmlVars

\* for outcome in market.outcomes: place_market_making_orders
MmlPlace(bid_ok, ask_ok) ==
    /\ mml.pc = "place"
    /\ LET ids == placed_ids(mml.gateway, mml.n, bid_ok, ask_ok)
       IN  mml' = [mml EXCEPT
               !.venue = @ \cup ids,
               !.cur = @ \cup ids,
               !.active_orders = @ \cup tracked_ids(ids),
               !.n = @ + 1,
               !.pc = "sleep"]
    /\ UNCHANGED nonMmlVars

\* time.sleep(self.update_interval), in the body or in except Exception
MmlSleep ==
    /\ mml.pc \in {"sleep", "errsleep"}
    /\ mml.iter < MaxIters
    /\ mml' = [mml EXCEPT !.pc = "while", !.iter = @ + 1]
    /\ UNCHANGED nonMmlVars

\* except KeyboardInterrupt: break
MmlInterrupt ==
    /\ mml.pc \in {"breaker", "duration", "refresh", "place", "sleep"}
    /\ mml' = [mml EXCEPT !.pc = "cleanup"]
    /\ UNCHANGED nonMmlVars

\* the cleanup after the loop
MmlCleanup ==
    /\ mml.pc = "cleanup"
    /\ mml' = [cancel_all_orders(mml) EXCEPT !.pc = "done"]
    /\ UNCHANGED nonMmlVars

\* shutdown in the main thread: market_maker.stopped = True and
\* cancel_all_orders (src/bot.py:695-697)
MmlStop ==
    /\ mml.pc \notin {"off", "done"}
    /\ ~mml.stopped
    /\ mml' = [cancel_all_orders(mml) EXCEPT !.stopped = TRUE]
    /\ UNCHANGED nonMmlVars

\* trades and fees change the balance at the gateway
MmlBalance(b) ==
    /\ mml.pc \notin {"off", "done"}
    /\ b # mml.cash
    /\ mml' = [mml EXCEPT !.cash = b]
    /\ UNCHANGED nonMmlVars

NextMml ==
    \/ MmlWhile
    \/ MmlBreaker
    \/ \E reached \in BOOLEAN : MmlDuration(reached)
    \/ MmlRefresh
    \/ \E bid_ok \in BOOLEAN, ask_ok \in BOOLEAN : MmlPlace(bid_ok, ask_ok)
    \/ MmlSleep
    \/ MmlInterrupt
    \/ MmlCleanup
    \/ MmlStop
    \/ \E b \in Balances : MmlBalance(b)

(***************************************************************************)
(* RealtimeMonitor (src/utils/realtime_monitor.py): monitor_until_end_of_day*)
(* polling the day's maximum and detect_max_change deciding on every       *)
(* reading.  Temperatures are in quarters of a degree, which the floats    *)
(* of the code represent exactly.                                          *)
(***************************************************************************)
MaxPolls == 3

MaxReading == 3

\* threshold = 0.5 degrees
threshold == 2

Abs(x) == IF x < 0 THEN 0 - x ELSE x

\* Optional[float]
None == [some |-> FALSE, v |-> 0]

Some(x) == [some |-> TRUE, v |-> x]

\* what a poll returns: a maximum, or None (no data, or the request failed)
Polled == {None} \cup {Some(x) : x \in 0..MaxReading}

detect_max_change_strict(previous_max, new_max) ==
    IF ~previous_max.some
    THEN [result |-> FALSE, previous_max |-> Some(new_max)]
    ELSE IF Abs(new_max - previous_max.v) > threshold
    THEN [result |-> TRUE, previous_max |-> Some(new_max)]
    ELSE [result |-> FALSE, previous_max |-> previous_max]

\* detect_max_change: the value returned and previous_max after the call
detect_max_change(previous_max, new_max) ==
    IF ~previous_max.some
    THEN [result |-> FALSE, previous_max |-> Some(new_max)]
    ELSE IF Abs(new_max - previous_max.v) >= threshold
    THEN [result |-> TRUE, previous_max |-> Some(new_max)]
    ELSE [result |-> FALSE, previous_max |-> previous_max]

\* old_max = self.readings[-2].current_max if len(self.readings) >= 2
\*           else self.previous_max
old_max(readings, previous_max) ==
    IF Len(readings) >= 2 THEN readings[Len(readings) - 1] ELSE previous_max.v

callback_except_reraise(raised) == raised

\* try: on_change_callback(...) except Exception: logger.error; whether the
\* exception leaves the block
callback_except(raised) == FALSE

RtmStart(cb) ==
    [monitoring |-> TRUE, previous_max |-> None, readings |-> <<>>,
     on_change |-> cb, polled |-> None, detected |-> FALSE, calls |-> <<>>,
     raised |-> FALSE, pc |-> "loop"]

\* monitor_until_end_of_day has set monitoring, cleared the readings and
\* previous_max
RtmInit == \E cb \in BOOLEAN : rtm = RtmStart(cb)

\* no monitor runs, for the specifications of the other components
RtmIdle == rtm = [RtmStart(FALSE) EXCEPT !.monitoring = FALSE, !.pc = "off"]

\* while self.monitoring, before the end hour: get_current_max, which stores
\* the reading; detect_max_change; the callback, which returns or raises;
\* an exception that leaves the callback's try block is the loop's except
\* Exception and finally
RtmPoll(p, cb_raises) ==
    /\ rtm.pc = "loop"
    /\ rtm.monitoring
    /\ Len(rtm.readings) < MaxPolls
    /\ LET readings == IF p.some THEN Append(rtm.readings, p.v) ELSE rtm.readings
           d == IF p.some
                THEN detect_max_change(rtm.previous_max, p.v)
                ELSE [result |-> FALSE, previous_max |-> rtm.previous_max]
           called == d.result /\ rtm.on_change /\ d.previous_max.some
           escapes == called /\ callback_except(cb_raises)
       IN  rtm' = [rtm EXCEPT
               !.readings = readings,
               !.previous_max = d.previous_max,
               !.polled = p,
               !.detected = d.result,
               !.calls = IF called
                         THEN <<[old_max |-> old_max(readings, d.previous_max),
                                 new_max |-> p.v]>>
                         ELSE <<>>,
               !.raised = called /\ cb_raises,
               !.monitoring = IF escapes THEN FALSE ELSE @,
               !.pc = IF escapes THEN "done" ELSE "sleep"]
    /\ UNCHANGED nonRtmVars

\* await asyncio.sleep(self.check_interval)
RtmSleep ==
    /\ rtm.pc = "sleep"
    /\ rtm' = [rtm EXCEPT !.pc = "loop"]
    /\ UNCHANGED nonRtmVars

\* the loop ends: monitoring was cleared or the end hour is reached
RtmEnd ==
    /\ rtm.pc = "loop"
    /\ rtm' = [rtm EXCEPT !.pc = "done", !.monitoring = FALSE]
    /\ UNCHANGED nonRtmVars

\* stop_monitoring, from another thread
RtmStopMonitoring ==
    /\ rtm.pc \in {"loop", "sleep"}
    /\ rtm.monitoring
    /\ rtm' = [rtm EXCEPT !.monitoring = FALSE]
    /\ UNCHANGED nonRtmVars

NextRtm ==
    \/ \E p \in Polled, cb_raises \in BOOLEAN : RtmPoll(p, cb_raises)
    \/ RtmSleep
    \/ RtmEnd
    \/ RtmStopMonitoring

\* the components that take no step in the specifications of the others
(***************************************************************************)
(* Single calls of the strategies' methods.  Prices, confidences and edges *)
(* are in hundredths, temperatures in degrees.  The market of these calls  *)
(* has three outcomes, "61 or below", "62-63" and "65 or higher", so that  *)
(* 64 degrees falls in no range.                                           *)
(***************************************************************************)
OutcomeRanges ==
    <<[has_min |-> FALSE, min_temp |-> 0, has_max |-> TRUE, max_temp |-> 61],
      [has_min |-> TRUE, min_temp |-> 62, has_max |-> TRUE, max_temp |-> 63],
      [has_min |-> TRUE, min_temp |-> 65, has_max |-> FALSE, max_temp |-> 0]>>

CallTemps == {61, 62, 63, 64, 65}

\* TemperatureMarket.get_outcome_by_temperature: the first outcome whose
\* range contains the temperature, by its index; 0 is None
get_outcome_by_temperature(temp) ==
    LET hits == {i \in 1..Len(OutcomeRanges) : contains(OutcomeRanges[i], temp)}
    IN  IF hits = {} THEN 0 ELSE CHOOSE i \in hits : \A j \in hits : i <= j

\* how execute_order is invoked: called as a plain function, as every caller
\* of the repository does, or awaited
Invocations == {"call", "await"}

\* BaseStrategy.execute_order, a coroutine function: a plain call builds a
\* coroutine and runs nothing; awaited, it calls place_order once, and with
\* the synchronous gateway awaiting the returned id raises TypeError, which
\* the except clause turns into False
execute_order(invocation, gateway, place_ok) ==
    IF invocation = "call"
    THEN [returned |-> "coroutine", place_calls |-> 0, placed |-> FALSE,
          tracked |-> FALSE]
    ELSE IF gateway = "sync"
    THEN [returned |-> "False", place_calls |-> 1, placed |-> place_ok,
          tracked |-> FALSE]
    ELSE [returned |-> IF place_ok THEN "True" ELSE "False",
          place_calls |-> 1, placed |-> place_ok, tracked |-> place_ok]

\* the truth value of what a call returned
Truthy(returned) == returned \in {"True", "coroutine"}

adjust_for_temperature_always(old_temp, new_temp, has_position, close_ok, place_ok) ==
    [result |-> TRUE, closes |-> 1, orders |-> <<>>]

\* PositionAdjuster.adjust_for_temperature: what it returns, how often it
\* calls close_position and the orders that reach the gateway
adjust_for_temperature(old_temp, new_temp, has_position, close_ok, place_ok) ==
    LET old_outcome == get_outcome_by_temperature(old_temp)
        new_outcome == get_outcome_by_temperature(new_temp)
        x == execute_order("call", "sync", place_ok)
    IN  IF old_outcome = 0 \/ new_outcome = 0
        THEN [result |-> FALSE, closes |-> 0, orders |-> <<>>]
        ELSE IF old_outcome = new_outcome
        THEN [result |-> FALSE, closes |-> 0, orders |-> <<>>]
        ELSE [result |-> (has_position /\ close_ok) \/ Truthy(x.returned),
              closes |-> IF has_position THEN 1 ELSE 0,
              orders |-> IF x.placed
                         THEN <<[outcome |-> new_outcome, side |-> "BUY",
                                 size |-> 50, order_type |-> "MARKET"]>>
                         ELSE <<>>]

AdjustInit ==
    \E old_temp \in CallTemps, new_temp \in CallTemps, has_position \in BOOLEAN,
       close_ok \in BOOLEAN, place_ok \in BOOLEAN :
        call = [fn |-> "adjust_for_temperature", pc |-> "called",
                old_max |-> old_temp, new_max |-> new_temp,
                has_position |-> has_position, close_ok |-> close_ok,
                place_ok |-> place_ok,
                result |-> FALSE, closes |-> 0, orders |-> <<>>]

AdjustReturn ==
    /\ call.fn = "adjust_for_temperature"
    /\ call.pc = "called"
    /\ LET r == adjust_for_temperature(call.old_max, call.new_max,
                                       call.has_position, call.close_ok,
                                       call.place_ok)
       IN  call' = [call EXCEPT !.pc = "returned", !.result = r.result,
                                !.closes = r.closes, !.orders = r.orders]
    /\ UNCHANGED nonCallVars

(***************************************************************************)
(* PositionTakerStrategy (src/strategies/position_taker.py).  Sizes are in *)
(* cents of a USDC, balances and exposures in USDC.                        *)
(***************************************************************************)
MaxDaysAhead == 6

max_position_size == 100

max_exposure_per_market == 200

\* kelly_fraction = 0.25, in hundredths
kelly_fraction == 25

\* round(x, 2) of x = n / d cents, n >= 0: to the nearest cent, ties to even
RoundHalfEven(n, d) ==
    LET q == n \div d
        r == n % d
    IN  IF 2 * r > d THEN q + 1
        ELSE IF 2 * r < d THEN q
        ELSE IF q % 2 = 0 THEN q ELSE q + 1

_calculate_position_size_unscaled(edge, confidence, days_ahead, current_exposure, balance) ==
    IF confidence <= 0 \/ confidence >= 100 \/ edge <= 0
    THEN 0
    ELSE 100 * Min(max_position_size, max_exposure_per_market - current_exposure)

\* _calculate_position_size with calculate_kelly_criterion
\* (src/utils/helpers.py:183-203) in exact arithmetic: the Kelly fraction is
\* kn / kd, clamped to [0, 1]; the size before scaling is size_n / size_d USDC
_calculate_position_size(edge, confidence, days_ahead, current_exposure, balance) ==
    IF confidence <= 0 \/ confidence >= 100
    THEN 0
    ELSE LET kd == (10000 \div kelly_fraction) * (100 - confidence)
             kn == IF edge <= 0
                   THEN 0
                   ELSE Min(edge * confidence, kd)
             remaining_exposure == max_exposure_per_market - current_exposure
             cap == Min(max_position_size, remaining_exposure)
             capped == balance * kn >= cap * kd
             size_n == IF capped THEN cap ELSE balance * kn
             size_d == IF capped THEN 1 ELSE kd
             days_scaling == IF 10 - days_ahead > 5 THEN 10 - days_ahead ELSE 5
         IN  IF size_n <= 0
             THEN 0
             ELSE RoundHalfEven(10 * days_scaling * size_n, size_d)

SizeInit ==
    \E edge \in {0 - 5, 2, 5, 30, 55}, confidence \in {0, 32, 50, 85, 95, 100},
       balance \in {0, 1, 50, 1000}, current_exposure \in {0, 150, 200, 250} :
        call = [fn |-> "_calculate_position_size", pc |-> "called",
                edge |-> edge, confidence |-> confidence, balance |-> balance,
                current_exposure |-> current_exposure,
                size |-> [d \in 0..MaxDaysAhead |-> 0]]

\* the call made with each days_ahead of 0..MaxDaysAhead, all else equal
SizeReturn ==
    /\ call.fn = "_calculate_position_size"
    /\ call.pc = "called"
    /\ call' = [call EXCEPT
           !.pc = "returned",
           !.size = [d \in 0..MaxDaysAhead |->
                        _calculate_position_size(call.edge, call.confidence, d,
                                                 call.current_exposure,
                                                 call.balance)]]
    /\ UNCHANGED nonCallVars

NoOrder == [kind |-> "none"]

\* analyze_market for a market with the ranges of OutcomeRanges priced by
\* prices (hundredths); the balance is read from the gateway inside
\* _calculate_position_size, and a coroutine cannot be multiplied: TypeError
analyze_market_any_edge(advance_days, days_until, predicted_temp, confidence, prices, current_exposure, gateway, cash) ==
    LET outcome == get_outcome_by_temperature(predicted_temp)
        balance == get_balance(gateway, cash)
        position_size == _calculate_position_size(confidence - prices[outcome], confidence,
                                                  days_until, current_exposure,
                                                  balance.value)
    IN  IF days_until > advance_days \/ days_until < 0 \/ outcome = 0
        THEN NoOrder
        ELSE IF current_exposure >= max_exposure_per_market
        THEN NoOrder
        ELSE IF balance.type = "coroutine" /\ confidence > 0 /\ confidence < 100
        THEN [kind |-> "raised"]
        ELSE IF position_size = 0
        THEN NoOrder
        ELSE [kind |-> "order", outcome |-> outcome, side |-> "BUY",
              size |-> position_size, price |-> prices[outcome],
              order_type |-> "LIMIT"]

analyze_market(advance_days, days_until, predicted_temp, confidence, prices, current_exposure, gateway, cash) ==
    LET outcome == get_outcome_by_temperature(predicted_temp)
        balance == get_balance(gateway, cash)
        edge == confidence - prices[outcome]
        position_size == _calculate_position_size(edge, confidence, days_until,
                                                  current_exposure, balance.value)
    IN  IF days_until > advance_days \/ days_until < 0
        THEN NoOrder
        ELSE IF outcome = 0
        THEN NoOrder
        ELSE IF edge < min_edge
        THEN NoOrder
        ELSE IF current_exposure >= max_exposure_per_market
        THEN NoOrder
        ELSE IF balance.type = "coroutine" /\ confidence > 0 /\ confidence < 100
        THEN [kind |-> "raised"]
        ELSE IF position_size = 0
        THEN NoOrder
        ELSE [kind |-> "order", outcome |-> outcome, side |-> "BUY",
              size |-> position_size, price |-> prices[outcome],
              order_type |-> "LIMIT"]

AnalyzeInit ==
    \E advance_days \in {1, 3, 7}, days_until \in (0 - 1)..MaxDaysAhead,
       predicted_temp \in CallTemps, confidence \in {32, 50, 85, 100},
       prices \in {<<20, 30, 50>>, <<5, 82, 10>>, <<1, 99, 1>>},
       current_exposure \in {0, 150, 200}, gateway \in Gateways,
       cash \in {0, 1000} :
        call = [fn |-> "analyze_market", pc |-> "called",
                advance_days |-> advance_days, days_until |-> days_until,
                predicted_temp |-> predicted_temp, confidence |-> confidence,
                prices |-> prices, current_exposure |-> current_exposure,
                gateway |-> gateway, cash |-> cash,
                result |-> NoOrder, place_calls |-> 0]

\* analyze_market calls get_balance and nothing else of the gateway
AnalyzeReturn ==
    /\ call.fn = "analyze_market"
    /\ call.pc = "called"
    /\ call' = [call EXCEPT
           !.pc = "returned",
           !.result = analyze_market(call.advance_days, call.days_until,
                                     call.predicted_temp, call.confidence,
                                     call.prices, call.current_exposure,
                                     call.gateway, call.cash)]
    /\ UNCHANGED nonCallVars

\* a token id is the index of its outcome; 0 when the market has no such token
get_outcome_by_token_id(token_id) ==
    IF token_id \in 1..Len(OutcomeRanges) THEN token_id ELSE 0

should_adjust_position_shares(position, predicted_temp) ==
    LET current_outcome == get_outcome_by_token_id(position.outcome_id)
    IN  IF current_outcome = 0
        THEN NoOrder
        ELSE IF contains(OutcomeRanges[current_outcome], predicted_temp)
        THEN NoOrder
        ELSE [kind |-> "order", outcome |-> position.outcome_id, side |-> "SELL",
              size |-> 100 * position.shares,
              price |-> position.current_price, order_type |-> "MARKET"]

\* prices in hundredths and shares in units: the size is in cents of a USDC
should_adjust_position(position, predicted_temp) ==
    LET current_outcome == get_outcome_by_token_id(position.outcome_id)
    IN  IF current_outcome = 0
        THEN NoOrder
        ELSE IF contains(OutcomeRanges[current_outcome], predicted_temp)
        THEN NoOrder
        ELSE [kind |-> "order", outcome |-> position.outcome_id, side |-> "SELL",
              size |-> position.shares * position.current_price,
              price |-> position.current_price, order_type |-> "MARKET"]

ShouldAdjustInit ==
    \E outcome_id \in 1..(Len(OutcomeRanges) + 1), shares \in {1, 50, 100},
       current_price \in {1, 32, 50, 100}, predicted_temp \in {61, 63, 64, 67} :
        call = [fn |-> "should_adjust_position", pc |-> "called",
                position |-> [outcome_id |-> outcome_id, shares |-> shares,
                              current_price |-> current_price],
                predicted_temp |-> predicted_temp,
                result |-> NoOrder]

ShouldAdjustReturn ==
    /\ call.fn = "should_adjust_position"
    /\ call.pc = "called"
    /\ call' = [call EXCEPT
           !.pc = "returned",
           !.result = should_adjust_position(call.position, call.predicted_temp)]
    /\ UNCHANGED nonCallVars

ExecuteInit ==
    \E invocation \in Invocations, gateway \in Gateways, place_ok \in BOOLEAN,
       active_orders \in SUBSET {"id1", "id2"}, side \in {"BUY", "SELL"} :
        call = [fn |-> "execute_order", pc |-> "called",
                invocation |-> invocation, gateway |-> gateway,
                place_ok |-> place_ok, order |-> [side |-> side, order_id |-> "None"],
                active_orders |-> active_orders,
                returned |-> "None", place_calls |-> 0, placed |-> FALSE]

\* the gateway answers a placed order with the identifier "id3"
ExecuteReturn ==
    /\ call.fn = "execute_order"
    /\ call.pc = "called"
    /\ LET r == execute_order(call.invocation, call.gateway, call.place_ok)
       IN  call' = [call EXCEPT
               !.pc = "returned",
               !.returned = r.returned,
               !.place_calls = r.place_calls,
               !.placed = r.placed,
               !.order.order_id = IF r.tracked THEN "id3" ELSE @,
               !.active_orders = IF r.tracked THEN @ \cup {"id3"} ELSE @]
    /\ UNCHANGED nonCallVars

(***************************************************************************)
(* MarketMakerStrategy pricing (src/strategies/market_maker.py).           *)
(* Confidence and price are in hundredths; a fair value is in 1/20000,     *)
(* so that price * (1 - confidence * 0.5) is the integer                   *)
(* price * (200 - confidence): 0.01 is 200 and 0.99 is 19800.              *)
(***************************************************************************)
calculate_fair_value_unclamped(outcome, outcome_price, predicted_temp, confidence) ==
    IF contains(OutcomeRanges[outcome], predicted_temp)
    THEN 200 * confidence
    ELSE outcome_price * (200 - confidence)

calculate_fair_value(outcome, outcome_price, predicted_temp, confidence) ==
    LET fair_value == IF contains(OutcomeRanges[outcome], predicted_temp)
                      THEN 200 * confidence
                      ELSE outcome_price * (200 - confidence)
        capped == IF 19800 < fair_value THEN 19800 ELSE fair_value
    IN  IF 200 > capped THEN 200 ELSE capped

FairValueInit ==
    \E outcome \in 1..Len(OutcomeRanges), outcome_price \in {0, 1, 2, 30, 50, 99, 100},
       predicted_temp \in CallTemps, confidence \in {50, 70, 85, 95} :
        call = [fn |-> "calculate_fair_value", pc |-> "called",
                outcome |-> outcome, price |-> outcome_price,
                predicted_temp |-> predicted_temp, confidence |-> confidence,
                fair_value |-> 0]

FairValueReturn ==
    /\ call.fn = "calculate_fair_value"
    /\ call.pc = "called"
    /\ call' = [call EXCEPT
           !.pc = "returned",
           !.fair_value = calculate_fair_value(call.outcome, call.price,
                                               call.predicted_temp, call.confidence)]
    /\ UNCHANGED nonCallVars

\* min_spread = 0.02, in hundredths
min_spread == 2

\* calculate_quotes without the half spread on the bid side
calculate_quotes_bid_at_fair(fair_value, spread, inventory_level) ==
    [bid |-> RoundHalfEven(Max(20, Min(1960, fair_value)), 20),
     ask |-> RoundHalfEven(Max(40, Min(1980, fair_value + 10 * spread)), 20)]

\* calculate_quotes without the clamps to the valid price range
calculate_quotes_unclamped(fair_value, spread, inventory_level) ==
    [bid |-> RoundHalfEven(Max(0, fair_value - 10 * spread - inventory_level * spread), 20),
     ask |-> RoundHalfEven(Max(0, fair_value + 10 * spread - inventory_level * spread), 20)]

\* calculate_quotes without the inventory adjustment
calculate_quotes_no_skew(fair_value, spread, inventory_level) ==
    [bid |-> RoundHalfEven(Max(20, Min(1960, fair_value - 10 * spread)), 20),
     ask |-> RoundHalfEven(Max(40, Min(1980, fair_value + 10 * spread)), 20)]

\* calculate_quotes with round_to_nearest (src/utils/helpers.py:169-180).
\* fair_value is in 1/2000 (0.01 is 20), spread in hundredths and
\* inventory_level in tenths, so that inventory_level * half_spread is the
\* integer inventory_level * spread; the quotes returned are in hundredths
calculate_quotes(fair_value, spread, inventory_level) ==
    LET half_spread == 10 * spread
        inventory_adjustment == inventory_level * spread
        base_bid == fair_value - half_spread - inventory_adjustment
        base_ask == fair_value + half_spread - inventory_adjustment
        crossed == base_bid >= base_ask
        mid == fair_value - inventory_adjustment
        bid1 == IF crossed THEN mid - 10 * min_spread ELSE base_bid
        ask1 == IF crossed THEN mid + 10 * min_spread ELSE base_ask
        bid2 == Max(20, Min(1960, bid1))
        ask2 == Max(40, Min(1980, ask1))
        ask3 == IF bid2 >= ask2 THEN bid2 + 20 * min_spread ELSE ask2
    IN  [bid |-> RoundHalfEven(bid2, 20), ask |-> RoundHalfEven(ask3, 20)]

QuotesInit ==
    \E fair_value \in {20, 30, 40, 500, 1000, 1010, 1070, 1700, 1960, 1980},
       spread \in {0, 1, 2, 3, 4, 10},
       inventory_level \in {0 - 10, 0 - 8, 0 - 1, 0, 1, 8, 10} :
        call = [fn |-> "calculate_quotes", pc |-> "called",
                fair_value |-> fair_value, spread |-> spread,
                inventory_level |-> inventory_level,
                quotes |-> [bid |-> 0, ask |-> 0],
                neutral |-> [bid |-> 0, ask |-> 0]]

\* the call, and the same call with inventory_level = 0 to compare with
QuotesReturn ==
    /\ call.fn = "calculate_quotes"
    /\ call.pc = "called"
    /\ call' = [call EXCEPT
           !.pc = "returned",
           !.quotes = calculate_quotes(call.fair_value, call.spread,
                                       call.inventory_level),
           !.neutral = calculate_quotes(call.fair_value, call.spread, 0)]
    /\ UNCHANGED nonCallVars

base_size == 50

\* inventory_skew_threshold = 0.7, in hundredths
inventory_skew_threshold == 70

\* the inventory level in hundredths, between -100 and 100
get_inventory_level(current_inventory) ==
    IF max_inventory = 0
    THEN 0
    ELSE Max(0 - 100, Min(100, (100 * current_inventory) \div max_inventory))

should_skew_quotes(current_inventory) ==
    Abs(get_inventory_level(current_inventory)) >= inventory_skew_threshold

\* the spread (hundredths) and the size (cents) the loop quotes an outcome with
quote_parameters(current_inventory) ==
    LET inventory_level == get_inventory_level(current_inventory)
    IN  [spread |-> IF should_skew_quotes(current_inventory)
                    THEN (min_spread * 3) \div 2
                    ELSE min_spread,
         size |-> IF Abs(inventory_level) > 50
                  THEN base_size * (100 - Abs(inventory_level))
                  ELSE base_size * 100]

QuoteOutcomeInit ==
    \E tens \in (0 - 60)..60 :
        call = [fn |-> "quote_outcome", pc |-> "called",
                inventory |-> 10 * tens,
                spread |-> 0, size |-> 0]

\* one pass of the loop body for one outcome, up to the order placement
QuoteOutcomeReturn ==
    /\ call.fn = "quote_outcome"
    /\ call.pc = "called"
    /\ call' = [call EXCEPT
           !.pc = "returned",
           !.spread = quote_parameters(call.inventory).spread,
           !.size = quote_parameters(call.inventory).size]
    /\ UNCHANGED nonCallVars

(***************************************************************************)
(* One scan cycle after the other of TradingBot.run_main_loop              *)
(* (src/bot.py:577-674) with the calls it makes inline: the forecast       *)
(* request of get_forecast_for_market and the venue calls of the handler.  *)
(* A cached forecast or snapshot is represented by the number of the       *)
(* cycle that obtained it, 0 when nothing is cached.                       *)
(***************************************************************************)
MaxCycles == 2

SclInit ==
    call = [fn |-> "run_main_loop", pc |-> "scan", cycle |-> 1,
            scanned |-> {}, todo |-> <<>>, handled |-> {},
            forecasts |-> [m \in Markets |-> 0],
            markets |-> [m \in Markets |-> 0],
            loop |-> [m \in Markets |-> 0],
            quoted |-> [m \in Markets |-> 0]]

\* markets = self.scan_markets() (src/bot.py:585-590)
SclScan ==
    /\ call.fn = "run_main_loop"
    /\ call.pc = "scan"
    /\ \E ms \in ScanResults :
          call' = [call EXCEPT
              !.pc = IF ms = <<>> THEN "sleep" ELSE "proc",
              !.scanned = {ms[i] : i \in 1..Len(ms)},
              !.todo = ms,
              !.handled = {}]
    /\ UNCHANGED nonCallVars

\* forecast = self.get_forecast_for_market(market): a forecast, None (the
\* request failed or no date matched: continue), or the request does not
\* return; a forecast is cached together with the market (src/bot.py:604-619)
SclFetch(answer) ==
    /\ call.fn = "run_main_loop"
    /\ call.pc = "proc"
    /\ call.todo # <<>>
    /\ LET m == Head(call.todo)
       IN  call' = IF answer = "forecast"
                   THEN [call EXCEPT !.pc = "handle",
                                     !.forecasts[m] = call.cycle,
                                     !.markets[m] = call.cycle]
                   ELSE IF answer = "none"
                   THEN [call EXCEPT !.todo = Tail(call.todo)]
                   ELSE [call EXCEPT !.pc = "hung"]
    /\ UNCHANGED nonCallVars

\* the market and forecast objects handle_market_making hands to the thread
\* it starts, args=(market, forecast), when the market has no thread yet
\* (src/bot.py:505-516): the objects of the current cycle
loop_arguments(held, cycle, cached) == IF held = 0 THEN cycle ELSE held

\* determine_market_state and the handle_* call of the market, made by the
\* loop's own thread (src/bot.py:621-652); handle_positioning calls the
\* venue before it returns (src/bot.py:441-486)
SclHandle(outcome) ==
    /\ call.fn = "run_main_loop"
    /\ call.pc = "handle"
    /\ LET m == Head(call.todo)
       IN  call' = IF outcome = "hangs"
                   THEN [call EXCEPT !.pc = "hung"]
                   ELSE [call EXCEPT
                            !.pc = "proc",
                            !.handled = @ \cup {m},
                            !.todo = Tail(call.todo),
                            !.loop[m] = IF outcome = "market_making"
                                        THEN loop_arguments(@, call.cycle, call.markets[m])
                                        ELSE @]
    /\ UNCHANGED nonCallVars

\* the for loop is exhausted: time.sleep(sleep_time) (src/bot.py:654-670)
SclDone ==
    /\ call.fn = "run_main_loop"
    /\ call.pc = "proc"
    /\ call.todo = <<>>
    /\ call' = [call EXCEPT !.pc = "sleep"]
    /\ UNCHANGED nonCallVars

\* the next iteration of the while loop
SclSleep ==
    /\ call.fn = "run_main_loop"
    /\ call.pc = "sleep"
    /\ call.cycle < MaxCycles
    /\ call' = [call EXCEPT !.pc = "scan", !.cycle = @ + 1]
    /\ UNCHANGED nonCallVars

\* a requote of the market-making thread of m: calculate_fair_value(outcome,
\* forecast) over market.outcomes, with the market and forecast the thread
\* was started with (src/strategies/market_maker.py:334-377)
SclRequote(m) ==
    /\ call.fn = "run_main_loop"
    /\ call.loop[m] # 0
    /\ call' = [call EXCEPT !.quoted[m] = loop_arguments(call.loop[m], call.cycle, call.markets[m])]
    /\ UNCHANGED nonCallVars

SclMain ==
    \/ SclScan
    \/ \E answer \in {"forecast", "none", "hangs"} : SclFetch(answer)
    \/ \E outcome \in {"returns", "market_making", "hangs"} : SclHandle(outcome)
    \/ SclDone
    \/ SclSleep

NextScl ==
    \/ SclMain
    \/ \E m \in Markets : SclRequote(m)

(***************************************************************************)
(* The try statements of the two loops: the market-making loop             *)
(* (src/strategies/market_maker.py:355-423) and the scan loop              *)
(* (src/bot.py:576-680), each with what is raised inside its iterations.   *)
(* A loop's record holds its position, the iterations it has begun, the    *)
(* exceptions it has caught and, once it has ended, why it ended.          *)
(***************************************************************************)
\* what a call inside an iteration may raise
Raised == {"Exception", "KeyboardInterrupt"}

\* a market-making loop that has no except Exception clause
mm_except_uncaught(lp, kind) ==
    IF kind = "KeyboardInterrupt"
    THEN [lp EXCEPT !.pc = "cleanup", !.exit = "interrupt"]
    ELSE [lp EXCEPT !.pc = "dead", !.exit = "exception"]

\* except KeyboardInterrupt: break / except Exception: log, sleep
\* (src/strategies/market_maker.py:413-419)
mm_except(lp, kind) ==
    IF kind = "KeyboardInterrupt"
    THEN [lp EXCEPT !.pc = "cleanup", !.exit = "interrupt"]
    ELSE [lp EXCEPT !.pc = "errsleep", !.caught = @ + 1]

\* except Exception: log, sleep 30 / except KeyboardInterrupt of the outer
\* try (src/bot.py:672-677)
scan_except(lp, kind) ==
    IF kind = "KeyboardInterrupt"
    THEN [lp EXCEPT !.pc = "finally", !.exit = "interrupt"]
    ELSE [lp EXCEPT !.pc = "errsleep", !.caught = @ + 1]

LoopStart == [pc |-> "while", iter |-> 0, caught |-> 0, exit |-> "none"]

LpInit ==
    call = [fn |-> "loops", mm |-> LoopStart, scan |-> LoopStart,
            stopped |-> FALSE, running |-> TRUE]

\* while not self.stopped (src/strategies/market_maker.py:355)
LpMmWhile ==
    /\ call.fn = "loops"
    /\ call.mm.pc = "while"
    /\ call.stopped \/ call.mm.iter < MaxIters
    /\ call' = [call EXCEPT !.mm =
                   IF call.stopped
                   THEN [@ EXCEPT !.pc = "cleanup", !.exit = "stopped"]
                   ELSE [@ EXCEPT !.pc = "body", !.iter = @ + 1]]
    /\ UNCHANGED nonCallVars

\* the statements of one iteration up to the sleep
\* (src/strategies/market_maker.py:356-405): the breaker or the duration
\* breaks, the quotes are placed, or a call raises
LpMmBody(outcome) ==
    /\ call.fn = "loops"
    /\ call.mm.pc = "body"
    /\ call' = IF outcome = "daily_loss"
               THEN [call EXCEPT !.stopped = TRUE,
                                 !.mm = [@ EXCEPT !.pc = "cleanup", !.exit = "breaker"]]
               ELSE IF outcome = "duration"
               THEN [call EXCEPT !.mm = [@ EXCEPT !.pc = "cleanup", !.exit = "duration"]]
               ELSE IF outcome = "quoted"
               THEN [call EXCEPT !.mm = [@ EXCEPT !.pc = "sleep"]]
               ELSE [call EXCEPT !.mm = mm_except(@, outcome)]
    /\ UNCHANGED nonCallVars

\* time.sleep(self.update_interval) at the end of the iteration
\* (src/strategies/market_maker.py:411)
LpMmSleep(interrupted) ==
    /\ call.fn = "loops"
    /\ call.mm.pc = "sleep"
    /\ call' = [call EXCEPT !.mm =
                   IF interrupted
                   THEN mm_except(@, "KeyboardInterrupt")
                   ELSE [@ EXCEPT !.pc = "while"]]
    /\ UNCHANGED nonCallVars

\* time.sleep(self.update_interval) of except Exception
\* (src/strategies/market_maker.py:419); a KeyboardInterrupt raised here
\* is inside a handler, where no clause of the same try catches it
LpMmErrSleep(interrupted) ==
    /\ call.fn = "loops"
    /\ call.mm.pc = "errsleep"
    /\ call' = [call EXCEPT !.mm =
                   IF interrupted
                   THEN [@ EXCEPT !.pc = "dead", !.exit = "interrupt"]
                   ELSE [@ EXCEPT !.pc = "while"]]
    /\ UNCHANGED nonCallVars

\* the cancel_all_orders after the loop
\* (src/strategies/market_maker.py:421-423)
LpMmCleanup ==
    /\ call.fn = "loops"
    /\ call.mm.pc = "cleanup"
    /\ call' = [call EXCEPT !.mm = [@ EXCEPT !.pc = "done"]]
    /\ UNCHANGED nonCallVars

\* while self.running and not self.shutdown_event.is_set() (src/bot.py:577)
LpScanWhile ==
    /\ call.fn = "loops"
    /\ call.scan.pc = "while"
    /\ ~call.running \/ call.scan.iter < MaxIters
    /\ call' = [call EXCEPT !.scan =
                   IF ~call.running
                   THEN [@ EXCEPT !.pc = "finally", !.exit = "stopped"]
                   ELSE [@ EXCEPT !.pc = "scan", !.iter = @ + 1]]
    /\ UNCHANGED nonCallVars

\* markets = self.scan_markets(); if not markets: sleep, continue
\* (src/bot.py:583-590)
LpScan(outcome) ==
    /\ call.fn = "loops"
    /\ call.scan.pc = "scan"
    /\ call' = [call EXCEPT !.scan =
                   IF outcome = "markets" THEN [@ EXCEPT !.pc = "proc"]
                   ELSE IF outcome = "no_markets" THEN [@ EXCEPT !.pc = "sleep"]
                   ELSE scan_except(@, outcome)]
    /\ UNCHANGED nonCallVars

\* for idx, market in enumerate(markets, 1): forecast, caches, handler
\* (src/bot.py:597-652)
LpProc(outcome) ==
    /\ call.fn = "loops"
    /\ call.scan.pc = "proc"
    /\ call' = [call EXCEPT !.scan =
                   IF outcome = "handled" THEN [@ EXCEPT !.pc = "sleep"]
                   ELSE scan_except(@, outcome)]
    /\ UNCHANGED nonCallVars

\* time.sleep at the end of the iteration (src/bot.py:588, 670)
LpScanSleep(interrupted) ==
    /\ call.fn = "loops"
    /\ call.scan.pc = "sleep"
    /\ call' = [call EXCEPT !.scan =
                   IF interrupted
                   THEN scan_except(@, "KeyboardInterrupt")
                   ELSE [@ EXCEPT !.pc = "while"]]
    /\ UNCHANGED nonCallVars

\* time.sleep(30) of except Exception (src/bot.py:674); a KeyboardInterrupt
\* raised here reaches the except KeyboardInterrupt of the outer try
LpScanErrSleep(interrupted) ==
    /\ call.fn = "loops"
    /\ call.scan.pc = "errsleep"
    /\ call' = [call EXCEPT !.scan =
                   IF interrupted
                   THEN [@ EXCEPT !.pc = "finally", !.exit = "interrupt"]
                   ELSE [@ EXCEPT !.pc = "while"]]
    /\ UNCHANGED nonCallVars

\* finally: self.shutdown() (src/bot.py:679-680, 685-696)
LpFinally ==
    /\ call.fn = "loops"
    /\ call.scan.pc = "finally"
    /\ call' = [call EXCEPT !.scan = [@ EXCEPT !.pc = "done"],
                            !.running = FALSE, !.stopped = TRUE]
    /\ UNCHANGED nonCallVars

\* signal_handler: self.shutdown(); sys.exit(0) (src/bot.py:716-724), run on
\* the thread of the scan loop: SystemExit passes both except clauses and
\* reaches the finally
LpSignal ==
    /\ call.fn = "loops"
    /\ call.scan.pc \in {"scan", "proc", "sleep", "errsleep"}
    /\ call' = [call EXCEPT !.running = FALSE, !.stopped = TRUE,
                            !.scan = [@ EXCEPT !.pc = "finally", !.exit = "interrupt"]]
    /\ UNCHANGED nonCallVars

\* threading.Timer(duration, bot.shutdown) (src/main.py:57-61): shutdown on
\* another thread sets both flags (src/bot.py:685-696)
LpTimer ==
    /\ call.fn = "loops"
    /\ call.running
    /\ call.scan.pc \notin {"finally", "done"}
    /\ call' = [call EXCEPT !.running = FALSE, !.stopped = TRUE]
    /\ UNCHANGED nonCallVars

NextLp ==
    \/ LpMmWhile
    \/ \E outcome \in {"daily_loss", "duration", "quoted"} \cup Raised : LpMmBody(outcome)
    \/ \E interrupted \in BOOLEAN : LpMmSleep(interrupted)
    \/ \E interrupted \in BOOLEAN : LpMmErrSleep(interrupted)
    \/ LpMmCleanup
    \/ LpScanWhile
    \/ \E outcome \in {"markets", "no_markets"} \cup Raised : LpScan(outcome)
    \/ \E outcome \in {"handled"} \cup Raised : LpProc(outcome)
    \/ \E interrupted \in BOOLEAN : LpScanSleep(interrupted)
    \/ \E interrupted \in BOOLEAN : LpScanErrSleep(interrupted)
    \/ LpFinally
    \/ LpSignal
    \/ LpTimer

\* no single call is checked
CallIdle == call = [fn |-> "off"]

RecIdle == MsgIdle /\ MmlIdle /\ RtmIdle /\ CallIdle

(***************************************************************************)
(* Specifications.                                                         *)
(***************************************************************************)
ClassifyIdle ==
    /\ cl_days = 0
    /\ cl_adv = 1
    /\ cl_mm = FALSE
    /\ cl_out = "none"

InitClassify == ClassifyInit /\ EngIdle /\ WsIdle /\ TickIdle /\ SubIdle /\ RecIdle

SpecClassify == InitClassify /\ [][Classify]_vars

Init == EngInit /\ ClassifyIdle /\ WsIdle /\ TickIdle /\ SubIdle /\ RecIdle

Spec == Init /\ [][Next]_vars

InitWs == WsInit /\ ClassifyIdle /\ EngIdle /\ TickIdle /\ SubIdle /\ RecIdle

SpecWs == InitWs /\ [][NextWs]_vars

InitTick == TickInit /\ ClassifyIdle /\ EngIdle /\ WsIdle /\ SubIdle /\ RecIdle

SpecTick == InitTick /\ [][NextTick]_vars

InitSub == SubInit /\ ClassifyIdle /\ EngIdle /\ WsIdle /\ TickIdle /\ RecIdle

SpecSub == InitSub /\ [][NextSub]_vars

InitMsg == MsgInit /\ ClassifyIdle /\ EngIdle /\ WsIdle /\ TickIdle /\ SubIdle /\ MmlIdle /\ RtmIdle /\ CallIdle

SpecMsg == InitMsg /\ [][NextMsg]_vars

InitMml == MmlInit /\ ClassifyIdle /\ EngIdle /\ WsIdle /\ TickIdle /\ SubIdle /\ MsgIdle /\ RtmIdle /\ CallIdle

SpecMml == InitMml /\ [][NextMml]_vars

InitRtm == RtmInit /\ ClassifyIdle /\ EngIdle /\ WsIdle /\ TickIdle /\ SubIdle /\ MsgIdle /\ MmlIdle /\ CallIdle

SpecRtm == InitRtm /\ [][NextRtm]_vars

\* every component but the single calls at rest
OthersIdle ==
    ClassifyIdle /\ EngIdle /\ WsIdle /\ TickIdle /\ SubIdle /\ MsgIdle /\ MmlIdle /\ RtmIdle

InitAdjust == AdjustInit /\ OthersIdle

SpecAdjust == InitAdjust /\ [][AdjustReturn]_vars

InitSize == SizeInit /\ OthersIdle

SpecSize == InitSize /\ [][SizeReturn]_vars

InitAnalyze == AnalyzeInit /\ OthersIdle

SpecAnalyze == InitAnalyze /\ [][AnalyzeReturn]_vars

InitLp == LpInit /\ OthersIdle

SpecLp == InitLp /\ [][NextLp]_vars

InitScl == SclInit /\ OthersIdle

SpecScl == InitScl /\ [][NextScl]_vars

\* the thread of the loop runs whenever it has a step to take
FairSpecScl == SpecScl /\ WF_vars(SclMain)

InitQuoteOutcome == QuoteOutcomeInit /\ OthersIdle

SpecQuoteOutcome == InitQuoteOutcome /\ [][QuoteOutcomeReturn]_vars

InitQuotes == QuotesInit /\ OthersIdle

SpecQuotes == InitQuotes /\ [][QuotesReturn]_vars

InitFairValue == FairValueInit /\ OthersIdle

SpecFairValue == InitFairValue /\ [][FairValueReturn]_vars

InitExecute == ExecuteInit /\ OthersIdle

SpecExecute == InitExecute /\ [][ExecuteReturn]_vars

InitShouldAdjust == ShouldAdjustInit /\ OthersIdle

SpecShouldAdjust == InitShouldAdjust /\ [][ShouldAdjustReturn]_vars

\* the steps the main thread takes by itself, with no result of the
\* environment (gateway, clock, signal) deciding them
MainStep ==
    \/ RunStart
    \/ LoopEnter
    \/ LoopCheck
    \/ CycleDone
    \/ Sleep
    \/ ErrSleep
    \/ Finally
    \/ ShutdownReturn
    \/ RunFinally

\* every thread that can take a step is scheduled: the main thread, the
\* running calls of shutdown, the monitor threads
\* (taken with position taking and streaming on: with position taking off a
\* monitor thread is started exactly when market making is on, which the
\* configurations kept cover, and the streaming thread starts no monitor)
FairInit == Init /\ enable_position_taking = TRUE /\ has_ws = TRUE

FairSpec ==
    /\ FairInit
    /\ [][Next]_vars
    /\ WF_vars(MainStep)
    /\ \A c \in Callers : WF_vars(ShutdownStep(c))
    /\ \A m \in Markets : WF_vars(MonitorThread(m))


(***************************************************************************)
(* Properties of the engine.                                               *)
(***************************************************************************)
\* number of threads of a kind the engine started for market m
Started(kind, m) ==
    Cardinality({i \in 1..Len(threads) : threads[i].m = m /\ threads[i].kind = kind})

\* shutdown has been called, by the Timer thread or on the main thread
ShutdownInvoked == sd["timer"] # "idle" \/ main_after # "none"

\* the call of shutdown by c is past its strategies block (src/bot.py:694-697)
PastStrategies(c) == sd[c] \in {"mon_begin", "mon_iter", "join", "complete", "crashed"}

\* C2: over any sequence of scan cycles the engine starts, for each market
\* id, at most one market-making loop and at most one monitor loop; handling
\* a market that is already registered starts no thread.
C2_AtMostOneLoop ==
    \A m \in Markets : Started("mm", m) <= 1 /\ Started("mon", m) <= 1

C2_Witness ==
    /\ handle_result = "noop"
    /\ \E m \in Markets : Started("mm", m) = 1 /\ days[m] >= 1

\* C3: after shutdown is invoked the scan loop starts no further scan cycle,
\* the market maker's stop flag is set and its cancellation invoked once the
\* call is past its strategies block, and a market-making loop that checks
\* the stop flag after that exits.
C3_ShutdownStopsLoops ==
    [][/\ ShutdownInvoked => ~(pc_main = "while" /\ pc_main' = "scan")
       /\ \A c \in Callers :
            (PastStrategies(c)' /\ enable_market_making) => (stopped' /\ c \in cancel_calls')
       /\ \A m \in Markets :
            (stopped /\ mmpc[m] = "check" /\ mmpc'[m] # "check") => mmpc'[m] = "cleanup"
      ]_vars

\* a monitor thread of market m exists and has not ended
MonitorAlive(m) == monpc[m] \notin {"none", "done"}

C6_ShutdownCompletes ==
    \A c \in Callers : sd[c] \notin {"idle", "complete"} => ENABLED ShutdownStep(c)

\* C7: when run returns, the main thread has run the whole shutdown path:
\* flags cleared and event set, market maker stopped and its cancellation
\* invoked, every registered monitor stopped, streaming thread stopped.
C7_ExitRunsShutdown ==
    pc_main = "returned" =>
        /\ main_after = "run_finally"
        /\ ~running /\ shutdown_event /\ state = STOPPED
        /\ enable_market_making => (stopped /\ "main" \in cancel_calls)
        /\ \A i \in 1..Len(monitors) :
              monitors[i].kind = "monitor" => ~monitoring[monitors[i].m]
        /\ has_ws => ~ws_running

\* run has returned after an interrupt, with market making and streaming on
C7_Witness ==
    /\ pc_main = "returned"
    /\ signalled
    /\ enable_market_making
    /\ has_ws
    /\ \E m \in Markets : mmpc[m] # "none"


\* disconnect has cleared the client's flags after WebSocketThread.stop
ClientStopped ==
    /\ ~thread_running
    /\ apc \notin {"connect", "loop"}

\* C5: once the streaming client has been stopped (stop leading to
\* disconnect) it is never again connected or running, whatever
\* reconnection attempt was in progress when the stop was requested.
C5_NoReconnectAfterStop ==
    ClientStopped => (~client.running /\ ~client.connected)

\* the waits of the reconnection attempts 1..5, in seconds
BackoffSequence == <<2, 4, 8, 16, 32>>

\* C10: a task waiting before reconnection attempt n, n in 1..5, waits
\* min(2^n, 60) seconds: 2, 4, 8, 16, 32, never more than 60.
C10_BackoffSequence ==
    \A k \in ConnIds :
        listen[k].pc = "backoff" =>
            /\ listen[k].attempt \in 1..max_reconnect_attempts
            /\ listen[k].backoff = BackoffSequence[listen[k].attempt]
            /\ listen[k].backoff = Min(2 ^ listen[k].attempt, 60)
            /\ listen[k].backoff <= 60

\* a task waits 32 seconds before the fifth attempt in a row
C10_Witness ==
    \E k \in ConnIds :
        /\ listen[k].pc = "backoff"
        /\ listen[k].attempt = 5
        /\ listen[k].backoff = 32
        /\ client.reconnect_attempts = 5


\* a step of the handler, not of the main thread
HandlerStep == <<hpc, h_it, tick_result>>' # <<hpc, h_it, tick_result>>

\* C8: a price-change for an instrument of a tracked market sets the cached
\* outcome's price to the new price, and when a forecast is cached whose
\* predicted temperature is in the outcome's range and confidence minus the
\* new price is at least min_edge, an order for that outcome is submitted
\* while the tick is handled.
C8_ReactiveOrder ==
    [][(hpc = "update" /\ hpc' = "idle") =>
          LET f == forecasts[TokenMarket[h_tok]]
          IN /\ price'[h_tok] = h_ask
             /\ ( /\ f # NoForecast
                  /\ contains(temperature_range[h_tok], f.max_temperature)
                  /\ f.confidence - h_ask >= min_edge )
                => h_tok \in tick_orders']_vars

\* C9: handling a price-change for an instrument of no tracked market
\* changes no cached price and submits no order; for a tracked market
\* without a cached forecast it sets the cached price and submits no order;
\* in both cases no exception leaves the handler.
C9_UntrackedOrNoForecast ==
    [][HandlerStep =>
          /\ (hpc # "idle" /\ TokenMarket[h_tok] \notin Tracked)
                => (price' = price /\ tick_orders' = tick_orders /\ ~escaped')
          /\ (hpc = "update" /\ forecasts[TokenMarket[h_tok]] = NoForecast)
                => ( /\ price'[h_tok] = h_ask
                     /\ tick_orders' = tick_orders
                     /\ tick_result' = "updated"
                     /\ ~escaped' )]_vars

\* a price-change for a token of m2 was handled while only m1 was cached,
\* m2's forecast being cached already and m1's prices not all the scan's
C9_Witness ==
    /\ hpc = "idle"
    /\ tick_result = "untracked"
    /\ h_tok = "t3"
    /\ h_ask = 55
    /\ markets = <<"m1">>
    /\ forecasts["m2"] # NoForecast
    /\ price["t1"] = 60
    /\ price["t3"] = 0


\* C11: after a connection loss the client makes at most
\* max_reconnect_attempts reconnection attempts, whatever connect and
\* resubscribe failures follow, before it has an established and
\* resubscribed connection or is marked stopped.
C11_BoundedAttempts ==
    client.tried <= max_reconnect_attempts


\* C12: whenever the read loop of a task ends, other than by cancellation,
\* while the client is intended to run (auto_reconnect and running), the
\* task starts the reconnection procedure: it enters its backoff sleep, or
\* _reconnect finds the attempt bound reached.
C12_ReadLoopEndReconnects ==
    [][\A k \in ConnIds :
          ( /\ listen[k].pc = "iter"
            /\ listen'[k].pc \notin {"iter", "cancelled"}
            /\ auto_reconnect
            /\ client.running )
          => \/ listen'[k].pc = "backoff"
             \/ client.reconnect_attempts >= max_reconnect_attempts]_vars


C14_SubscribeAdditive ==
    /\ sub.assets = sub.passed
    /\ sub.outcome = "ok" => sub.assets = sub.before \cup sub.ids
    /\ (sub.outcome = "ok" /\ sub.ids \subseteq sub.before) => sub.assets = sub.before
    /\ sub.outcome \in {"refused", "send_failed"} => sub.assets = sub.before

\* a2 was subscribed after a1, and the set holds both
C14_Witness ==
    /\ sub.outcome = "ok"
    /\ sub.before = {"a1"}
    /\ sub.ids = {"a2"}
    /\ sub.assets = {"a1", "a2"}

\* a frame that carries no known event: the text PONG, text that is no JSON,
\* a JSON scalar, an object with an unknown event type, an array with no
\* object of a known event type
Ignorable(frame) ==
    \A i \in 1..Len(frame.items) : frame.items[i] \notin KnownEvents

\* C15: a frame with an unknown event type, a PONG or a non-structured frame
\* invokes no user callback, leaves connected, running and the subscribed
\* set as they were and leaves the read loop iterating; a user callback that
\* raises on a known event leaves the read loop iterating too
C15_DroppedFramesAndCallbackErrors ==
    [][msg' # msg =>
        /\ Ignorable(msg'.frame) =>
              /\ msg'.calls = <<>>
              /\ msg'.connected = msg.connected
              /\ msg'.running = msg.running
              /\ msg'.subscribed_assets = msg.subscribed_assets
              /\ msg'.loop = "iterating"
        /\ msg'.cb = "raises" => msg'.loop = "iterating"]_vars

C15_Witness ==
    /\ msg.frame = [type |-> "list", items |-> <<"unknown", "price_change">>]
    /\ msg.cb = "raises"
    /\ msg.calls = <<"price_change">>
    /\ msg.loop = "iterating"
    /\ msg.running

\* C16: when the loop is about to place the quotes of an iteration, no quote
\* of its previous iteration is left at the venue, and when the loop has
\* exited no quote it placed is left at the venue
C16_QuotesCancelled ==
    /\ mml.pc = "place" => mml.prev \cap mml.venue = {}
    /\ mml.pc = "done" => mml.venue = {}

\* the loss of the session exceeds the limit: cash at the gateway plus the
\* value of the positions, less the cash at the start of the session
DailyLossExceeded(m) ==
    (m.cash + position_value(m.positions)) - InitialBalance < 0 - max_daily_loss

InventoryExceeded(m) ==
    \E p \in m.inventory : p.shares > max_inventory

\* C17: the breaker check of an iteration, made before any quote of that
\* iteration, sets the stopped flag and sends the loop to its cleanup with
\* no quote placed whenever the daily loss is below -max_daily_loss, and
\* returns false with the flag as it was when it is not
C17_DailyLossBreaker ==
    [][MmlBreaker =>
        IF DailyLossExceeded(mml)
        THEN /\ mml'.breaker = "true"
             /\ mml'.stopped
             /\ mml'.pc = "cleanup"
             /\ mml'.venue = mml.venue
        ELSE /\ mml'.breaker = "false"
             /\ mml'.stopped = mml.stopped]_vars

\* C18: a breaker check made with an inventory above max_inventory, the
\* daily loss within its limit, returns false, leaves the stopped flag as
\* it was and lets the iteration go on towards the cancel and the requote
C18_InventorySoftWarning ==
    [][(MmlBreaker /\ InventoryExceeded(mml) /\ ~DailyLossExceeded(mml)) =>
        /\ mml'.breaker = "false"
        /\ mml'.stopped = mml.stopped
        /\ mml'.pc = "duration"]_vars

C18_Witness ==
    /\ InventoryExceeded(mml)
    /\ ~DailyLossExceeded(mml)
    /\ mml.breaker = "false"
    /\ mml.iter = 1
    /\ mml.pc = "sleep"
    /\ mml.cur = {3, 4}
    /\ ~mml.stopped

\* a poll that obtained a maximum, so that detect_max_change was called
DetectStep ==
    \E p \in Polled, cb_raises \in BOOLEAN : p.some /\ RtmPoll(p, cb_raises)

\* C19: the first call of detect_max_change returns false and seeds
\* previous_max with its argument; every later call returns true iff the
\* absolute change from previous_max is at least the threshold, and
\* previous_max becomes the argument on the calls that return true and
\* stays as it was on those that return false
C19_DetectMaxChange ==
    [][DetectStep =>
        IF ~rtm.previous_max.some
        THEN /\ ~rtm'.detected
             /\ rtm'.previous_max = rtm'.polled
        ELSE /\ rtm'.detected =
                    (Abs(rtm'.polled.v - rtm.previous_max.v) >= threshold)
             /\ rtm'.previous_max =
                    IF rtm'.detected THEN rtm'.polled ELSE rtm.previous_max]_vars

C19_Witness ==
    /\ rtm.readings = <<1, 2, 3>>
    /\ rtm.previous_max = Some(3)
    /\ rtm.detected
    /\ rtm.polled = Some(3)

\* C20: a poll on which a change is detected invokes on_change exactly
\* once, with the maximum previous_max held before the poll and the
\* polled maximum
C20_CallbackArguments ==
    [][(DetectStep /\ rtm'.detected /\ rtm.on_change) =>
        rtm'.calls = <<[old_max |-> rtm.previous_max.v,
                        new_max |-> rtm'.polled.v]>>]_vars

\* an iteration of the monitor loop that polls
PollStep ==
    \E p \in Polled, cb_raises \in BOOLEAN : RtmPoll(p, cb_raises)

\* C21: an iteration of the monitor loop goes on to its sleep and next poll,
\* with monitoring as it was, also when on_change raised and when the poll
\* failed or was empty; a failed or empty poll leaves previous_max as it
\* was and invokes no callback
C21_MonitorLoopSurvives ==
    [][PollStep =>
        /\ rtm'.pc = "sleep"
        /\ rtm'.monitoring = rtm.monitoring
        /\ ~rtm'.polled.some =>
              /\ rtm'.previous_max = rtm.previous_max
              /\ rtm'.calls = <<>>
              /\ rtm'.readings = rtm.readings]_vars

C21_Witness ==
    /\ rtm.raised
    /\ rtm.calls # <<>>
    /\ rtm.pc = "loop"
    /\ rtm.monitoring
    /\ Len(rtm.readings) < MaxPolls

\* C22: adjust_for_temperature returns false, closes nothing and submits
\* nothing when both temperatures map to the same outcome and when either
\* maps to no outcome
C22_NoAdjustment ==
    (/\ call.fn = "adjust_for_temperature"
     /\ call.pc = "returned"
     /\ \/ get_outcome_by_temperature(call.old_max) = 0
        \/ get_outcome_by_temperature(call.new_max) = 0
        \/ get_outcome_by_temperature(call.old_max)
             = get_outcome_by_temperature(call.new_max))
    => (~call.result /\ call.closes = 0 /\ call.orders = <<>>)

C22_Witness ==
    /\ call.fn = "adjust_for_temperature"
    /\ call.pc = "returned"
    /\ call.old_max = 62
    /\ call.new_max = 63
    /\ call.has_position
    /\ call.close_ok
    /\ ~call.result

\* C23: when the temperatures map to two different outcomes,
\* adjust_for_temperature closes the position on the old outcome if there is
\* one, submits exactly one market buy of 50 on the new outcome, and returns
\* true iff the close or the buy succeeded
C23_CloseThenBuy ==
    (/\ call.fn = "adjust_for_temperature"
     /\ call.pc = "returned"
     /\ get_outcome_by_temperature(call.old_max) # 0
     /\ get_outcome_by_temperature(call.new_max) # 0
     /\ get_outcome_by_temperature(call.old_max)
          # get_outcome_by_temperature(call.new_max))
    => /\ call.closes = (IF call.has_position THEN 1 ELSE 0)
       /\ call.place_ok =>
            call.orders = <<[outcome |-> get_outcome_by_temperature(call.new_max),
                             side |-> "BUY", size |-> 50,
                             order_type |-> "MARKET"]>>
       /\ call.result = ((call.has_position /\ call.close_ok) \/ call.place_ok)

SizeReturned == call.fn = "_calculate_position_size" /\ call.pc = "returned"

\* C25 as stated: the size never exceeds max_position_size nor
\* max_exposure_per_market - current_exposure, is never negative, and a
\* positive size is strictly smaller for every larger days_ahead
C25_SizeBounds ==
    SizeReturned =>
        \A d \in 0..MaxDaysAhead :
            /\ call.size[d] <= 100 * max_position_size
            /\ call.size[d] <= 100 * (max_exposure_per_market - call.current_exposure)
            /\ call.size[d] >= 0
            /\ \A d2 \in 0..MaxDaysAhead :
                 (d < d2 /\ call.size[d] > 0) => call.size[d2] < call.size[d]

\* C25, amended: the size never exceeds max_position_size nor the remaining
\* exposure where that is not negative, is never negative, never grows with
\* days_ahead, and is strictly smaller for a larger days_ahead up to 5 days
\* when it is at least 1 USDC
C25_SizeBoundsAmended ==
    SizeReturned =>
        \A d \in 0..MaxDaysAhead :
            /\ call.size[d] <= 100 * max_position_size
            /\ call.current_exposure <= max_exposure_per_market =>
                 call.size[d] <= 100 * (max_exposure_per_market - call.current_exposure)
            /\ call.size[d] >= 0
            /\ \A d2 \in 0..MaxDaysAhead :
                 d < d2 =>
                    /\ call.size[d2] <= call.size[d]
                    /\ (d2 <= 5 /\ call.size[d] >= 100) => call.size[d2] < call.size[d]

C25_Witness ==
    /\ SizeReturned
    /\ call.edge = 30
    /\ call.confidence = 85
    /\ call.balance = 1000
    /\ call.current_exposure = 150
    /\ call.size[0] = 5000
    /\ call.size[3] = 3500
    /\ call.size[5] = 2500
    /\ call.size[6] = 2500

AnalyzeReturned == call.fn = "analyze_market" /\ call.pc = "returned"

\* the size _calculate_position_size computes for the call, 0 when the
\* gateway's balance is no number and nothing is computed
ComputedSize ==
    LET outcome == get_outcome_by_temperature(call.predicted_temp)
        balance == get_balance(call.gateway, call.cash)
    IN  IF balance.type = "float"
        THEN _calculate_position_size(call.confidence - call.prices[outcome],
                                      call.confidence, call.days_until,
                                      call.current_exposure, balance.value)
        ELSE 0

ShouldAdjustReturned == call.fn = "should_adjust_position" /\ call.pc = "returned"

\* the position's outcome is in the market and its range holds the forecast
StillSupported ==
    /\ get_outcome_by_token_id(call.position.outcome_id) # 0
    /\ contains(OutcomeRanges[call.position.outcome_id], call.predicted_temp)

\* C26 as stated: nothing is returned when the predicted temperature lies in
\* the range of the position's outcome; otherwise a market sell order on that
\* outcome whose size is the position's share count
C26_FullLiquidation ==
    (ShouldAdjustReturned /\ get_outcome_by_token_id(call.position.outcome_id) # 0) =>
        /\ StillSupported => call.result = NoOrder
        /\ ~StillSupported =>
              /\ call.result.kind = "order"
              /\ call.result.side = "SELL"
              /\ call.result.order_type = "MARKET"
              /\ call.result.outcome = call.position.outcome_id
              /\ call.result.size = 100 * call.position.shares

\* C26, amended: nothing is returned when the predicted temperature lies in
\* the range of the position's outcome or the market has no such outcome;
\* otherwise a market sell order on that outcome at the position's current
\* price whose size is the position's value, shares * current_price
C26_FullLiquidationAmended ==
    ShouldAdjustReturned =>
        /\ StillSupported => call.result = NoOrder
        /\ get_outcome_by_token_id(call.position.outcome_id) = 0 => call.result = NoOrder
        /\ (~StillSupported /\ get_outcome_by_token_id(call.position.outcome_id) # 0) =>
              /\ call.result.kind = "order"
              /\ call.result.side = "SELL"
              /\ call.result.order_type = "MARKET"
              /\ call.result.outcome = call.position.outcome_id
              /\ call.result.price = call.position.current_price
              /\ call.result.size = call.position.shares * call.position.current_price

\* scenario C: 100 shares of 62-63 at 0.32, forecast 67
C26_Witness ==
    /\ ShouldAdjustReturned
    /\ call.position = [outcome_id |-> 2, shares |-> 100, current_price |-> 32]
    /\ call.predicted_temp = 67
    /\ call.result.kind = "order"
    /\ call.result.size = 3200

\* C27: execute_order calls place_order exactly once; when the gateway
\* accepts, the identifier is recorded on the order and in active_orders and
\* the result is true; when the gateway fails, the result is false and
\* active_orders is unchanged
C27_ExecuteOrder ==
    [][ExecuteReturn =>
          /\ call'.place_calls = 1
          /\ call.place_ok =>
                /\ call'.returned = "True"
                /\ call'.order.order_id = "id3"
                /\ call'.active_orders = call.active_orders \cup {"id3"}
          /\ ~call.place_ok =>
                /\ call'.returned = "False"
                /\ call'.active_orders = call.active_orders]_vars

FairValueReturned == call.fn = "calculate_fair_value" /\ call.pc = "returned"

ForecastInRange == contains(OutcomeRanges[call.outcome], call.predicted_temp)

\* C28 as stated: the fair value is the confidence when the predicted
\* temperature lies in the outcome's range, price * (1 - confidence * 0.5)
\* otherwise, and always lies in [0.01, 0.99]
C28_FairValue ==
    FairValueReturned =>
        /\ ForecastInRange => call.fair_value = 200 * call.confidence
        /\ ~ForecastInRange => call.fair_value = call.price * (200 - call.confidence)
        /\ call.fair_value >= 200
        /\ call.fair_value <= 19800

\* C28, amended: the fair value is the confidence when the predicted
\* temperature lies in the outcome's range, otherwise the larger of 0.01 and
\* price * (1 - confidence * 0.5); it always lies in [0.01, 0.99]
C28_FairValueAmended ==
    FairValueReturned =>
        /\ ForecastInRange => call.fair_value = 200 * call.confidence
        /\ ~ForecastInRange =>
              call.fair_value = IF call.price * (200 - call.confidence) < 200
                                THEN 200
                                ELSE call.price * (200 - call.confidence)
        /\ call.fair_value >= 200
        /\ call.fair_value <= 19800

\* an outcome priced 0.01 that the forecast does not support
C28_Witness ==
    /\ FairValueReturned
    /\ ~ForecastInRange
    /\ call.price = 1
    /\ call.confidence = 85
    /\ call.fair_value = 200

QuotesReturned == call.fn = "calculate_quotes" /\ call.pc = "returned"

WholeCentsInside ==
    /\ call.spread > 0
    /\ call.fair_value - 10 * call.spread >= 20
    /\ call.fair_value + 10 * call.spread <= 1980
    /\ (call.fair_value - 10 * call.spread) % 20 = 0

C30_InventorySkew ==
    QuotesReturned =>
        /\ call.inventory_level > 0 =>
              /\ call.quotes.bid < call.neutral.bid
              /\ call.quotes.ask < call.neutral.ask
        /\ call.inventory_level < 0 =>
              /\ call.quotes.bid > call.neutral.bid
              /\ call.quotes.ask > call.neutral.ask

\* the adjustment |inventory_level| * spread / 2 is above one cent and no
\* clamp acts on the skewed or on the neutral quotes
SkewAboveOneCent ==
    /\ Abs(call.inventory_level) * call.spread > 20
    /\ call.fair_value - 10 * call.spread - Abs(call.inventory_level) * call.spread >= 20
    /\ call.fair_value + 10 * call.spread + Abs(call.inventory_level) * call.spread <= 1980

\* C30, amended: with inventory_level > 0 neither quote is above its
\* counterpart for inventory_level = 0, with inventory_level < 0 neither is
\* below; the inequalities are strict when the adjustment exceeds one cent
\* and no clamp acts
C30_InventorySkewAmended ==
    QuotesReturned =>
        /\ call.inventory_level > 0 =>
              /\ call.quotes.bid <= call.neutral.bid
              /\ call.quotes.ask <= call.neutral.ask
              /\ SkewAboveOneCent =>
                    /\ call.quotes.bid < call.neutral.bid
                    /\ call.quotes.ask < call.neutral.ask
        /\ call.inventory_level < 0 =>
              /\ call.quotes.bid >= call.neutral.bid
              /\ call.quotes.ask >= call.neutral.ask
              /\ SkewAboveOneCent =>
                    /\ call.quotes.bid > call.neutral.bid
                    /\ call.quotes.ask > call.neutral.ask

\* fair value 0.50, spread 0.04, 80% long
C30_Witness ==
    /\ QuotesReturned
    /\ call.fair_value = 1000
    /\ call.spread = 4
    /\ call.inventory_level = 8
    /\ call.quotes = [bid |-> 46, ask |-> 50]
    /\ call.neutral = [bid |-> 48, ask |-> 52]

C32_SkewedQuoteParameters ==
    (call.fn = "quote_outcome" /\ call.pc = "returned") =>
        LET level == Abs(get_inventory_level(call.inventory))
        IN  /\ level >= inventory_skew_threshold =>
                  /\ 2 * call.spread = 3 * min_spread
                  /\ call.size = base_size * (100 - level)
            /\ level < inventory_skew_threshold =>
                  /\ call.spread = min_spread
                  /\ call.size = base_size * 100

\* C33: when a call made for one market does not return, the other markets
\* of the cycle are still handled: only the market of the call stays in the
\* list of the cycle
C33_OtherMarketsHandled ==
    (call.fn = "run_main_loop" /\ call.pc = "hung") ~> (Len(call.todo) <= 1)

\* C35: after a completed cycle nothing obtained in an earlier cycle is
\* cached for a market the cycle's scan returned
C35_CachesOfThisCycle ==
    (call.fn = "run_main_loop" /\ call.pc = "sleep") =>
        \A m \in call.scanned :
            /\ call.forecasts[m] \in {0, call.cycle}
            /\ call.markets[m] \in {0, call.cycle}

\* C34: when a cycle classifies a market as DAY_OF_MONITORING while a
\* strategy is enabled, the monitor thread of the market has been started
\* when the market's handling returns
C34_MonitorStarted ==
    [][(/\ ProcessMarket
        /\ determine_market_state(days[Head(todo)], AdvanceDays,
                                  enable_market_making) = DAY_OF_MONITORING
        /\ (enable_position_taking \/ enable_market_making))
          => monpc'[Head(todo)] # "none"]_vars

\* C36: each requote of a market's loop computes from the forecast and the
\* market snapshot the engine has cached for the market at that moment
C36_RequoteReadsCache ==
    [][\A m \in Markets :
          SclRequote(m) =>
              /\ call'.quoted[m] = call.forecasts[m]
              /\ call'.quoted[m] = call.markets[m]]_vars

OpenConnections == {k \in ConnIds : conns[k] = "open"}

\* the _listen tasks inside their read loop
ActiveListenLoops == {k \in ConnIds : listen[k].pc = "iter"}

\* the _ping_loop tasks inside their while loop
ActivePingLoops == {k \in ConnIds : ping[k].pc = "sleep"}

\* C37: at every moment the client has at most one open connection, at most
\* one active read loop and at most one active ping loop
C37_SingleConnectionAndLoops ==
    /\ Cardinality(OpenConnections) <= 1
    /\ Cardinality(ActiveListenLoops) <= 1
    /\ Cardinality(ActivePingLoops) <= 1

\* C38: the stopped flag is shared by the loops of all markets: a daily-loss
\* breach sets it, it stays set, every loop that checks it while it is set
\* leaves for its cleanup, and no loop enters an iteration while it is set
C38_SharedStopFlag ==
    [][/\ stopped => stopped'
       /\ \A m \in Markets :
            /\ MMBreaker(m) => stopped'
            /\ (stopped /\ MMCheck(m)) => mmpc'[m] = "cleanup"
            /\ (mmpc[m] # "body" /\ mmpc'[m] = "body") => ~stopped]_vars

\* the breaker of one loop has stopped both loops; shutdown was not called
C38_Witness ==
    /\ stopped
    /\ mmpc["m2"] = "done"
    /\ mmpc["m1"] = "done"
    /\ cancel_calls = {}
    /\ \A c \in Callers : sd[c] = "idle"

\* C39: every market id in the market cache has a forecast in the forecast
\* cache, in every state, also between the two cache writes of a scan and
\* while a price-change handler runs
C39_TrackedHasForecast ==
    \A m \in Tracked : forecasts[m] # NoForecast

\* the scan is between its two writes for a market not yet tracked while a
\* handler is about to read the forecast of a tracked one
C39_Witness ==
    /\ cache_pc \in Markets
    /\ cache_pc \notin Tracked
    /\ forecasts[cache_pc] # NoForecast
    /\ hpc = "update"
    /\ TokenMarket[h_tok] \in Tracked

\* the loops that have run to the end of their function, or died
LoopEnded(lp) == lp.pc \in {"cleanup", "finally", "done", "dead"}

\* C40: an exception raised inside an iteration of the market-making loop or
\* of the scan loop does not end the loop: the loop goes to the sleep of its
\* except clause and from there to its next check, and a loop that has ended
\* has ended on its stop flag, a circuit breaker, its duration or an
\* interrupt
C40_LoopsSurviveExceptions ==
    [][/\ call'.mm.caught > call.mm.caught =>
              (call'.mm.pc = "errsleep" /\ call'.mm.exit = "none")
       /\ call'.scan.caught > call.scan.caught =>
              (call'.scan.pc = "errsleep" /\ call'.scan.exit = "none")
       /\ (call.mm.pc = "errsleep" /\ call'.mm.pc # "errsleep") =>
              (call'.mm.pc = "while" \/ call'.mm.exit = "interrupt")
       /\ (call.scan.pc = "errsleep" /\ call'.scan.pc # "errsleep") =>
              (call'.scan.pc = "while" \/ call'.scan.exit = "interrupt")
       /\ LoopEnded(call'.mm) <=>
              call'.mm.exit \in {"stopped", "breaker", "duration", "interrupt"}
       /\ LoopEnded(call'.scan) <=>
              call'.scan.exit \in {"stopped", "interrupt"}
       /\ call'.mm.exit \in {"none", "stopped", "breaker", "duration", "interrupt"}
       /\ call'.scan.exit \in {"none", "stopped", "interrupt"}]_vars

\* both loops have caught an exception and are inside a later iteration
C40_Witness ==
    /\ call.fn = "loops"
    /\ call.mm.caught >= 1
    /\ call.mm.pc = "body"
    /\ call.mm.iter >= 2
    /\ call.scan.caught >= 1
    /\ call.scan.pc = "proc"
    /\ call.scan.iter >= 2

====
